---- MODULE Spec2Model ----
(***************************************************************************)
(* Product-locator resolution of the checkout gateway                      *)
(* (src/src/orders/createCrossmintOrder.ts): resolveProductLocator, its    *)
(* storefront probe isShopifyStorefront and buildShopifyLocator.           *)
(*                                                                         *)
(* A JavaScript string is a sequence of one-character strings, so that     *)
(* trim, toLowerCase, startsWith, includes, endsWith, the URL parser and   *)
(* URLSearchParams are computed character by character.                    *)
(***************************************************************************)
EXTENDS Integers, Sequences, FiniteSets, TLC

(***************************************************************************)
(* Bounds of the model.                                                    *)
(***************************************************************************)
\* Longest query string, in parameters, of a generated URL.
MaxParams == 2
\* Clock steps the model takes per probe timeout period.
TicksPerTimeout == 2

(***************************************************************************)
(* String primitives (methods of String.prototype).                        *)
(***************************************************************************)
UpperChars == <<"A", "B", "C", "D", "E", "F", "G", "H", "I", "J", "K", "L", "M", "N", "O", "P", "Q", "R", "S", "T", "U", "V", "W", "X", "Y", "Z">>
LowerChars == <<"a", "b", "c", "d", "e", "f", "g", "h", "i", "j", "k", "l", "m", "n", "o", "p", "q", "r", "s", "t", "u", "v", "w", "x", "y", "z">>
DigitChars == <<"0", "1", "2", "3", "4", "5", "6", "7", "8", "9">>

\* White space and line terminators stripped by trim (the ASCII ones).
WhiteSpace == {" ", "\t", "\n", "\r"}

Range(s) == {s[i] : i \in 1..Len(s)}

LowerChar(c) ==
    IF \E i \in 1..Len(UpperChars) : UpperChars[i] = c
    THEN LowerChars[CHOOSE i \in 1..Len(UpperChars) : UpperChars[i] = c]
    ELSE c

ToLowerCase(s) == [i \in 1..Len(s) |-> LowerChar(s[i])]

\* s.startsWith(p)
StartsWith(s, p) == /\ Len(p) <= Len(s)
                    /\ SubSeq(s, 1, Len(p)) = p

\* s.endsWith(p)
EndsWith(s, p) == /\ Len(p) <= Len(s)
                  /\ SubSeq(s, Len(s) - Len(p) + 1, Len(s)) = p

\* s.includes(p)
Includes(s, p) == \E i \in 1..(Len(s) - Len(p) + 1) : SubSeq(s, i, i + Len(p) - 1) = p

\* Index of the first character of s in the set cs, or Len(s)+1.
FirstIn(s, cs) ==
    IF \E i \in 1..Len(s) : s[i] \in cs
    THEN CHOOSE i \in 1..Len(s) : s[i] \in cs /\ \A j \in 1..(i - 1) : s[j] \notin cs
    ELSE Len(s) + 1

\* Index of the first character of s outside the set cs, or Len(s)+1.
FirstNotIn(s, cs) ==
    IF \E i \in 1..Len(s) : s[i] \notin cs
    THEN CHOOSE i \in 1..Len(s) : s[i] \notin cs /\ \A j \in 1..(i - 1) : s[j] \in cs
    ELSE Len(s) + 1

\* Index of the last character of s outside the set cs, or 0.
LastNotIn(s, cs) ==
    IF \E i \in 1..Len(s) : s[i] \notin cs
    THEN CHOOSE i \in 1..Len(s) : s[i] \notin cs /\ \A j \in (i + 1)..Len(s) : s[j] \in cs
    ELSE 0

\* Index of the last occurrence of character c in s, or 0.
LastIndexOf(s, c) ==
    IF \E i \in 1..Len(s) : s[i] = c
    THEN CHOOSE i \in 1..Len(s) : s[i] = c /\ \A j \in (i + 1)..Len(s) : s[j] # c
    ELSE 0

\* s.trim()
Trim(s) == SubSeq(s, FirstNotIn(s, WhiteSpace), LastNotIn(s, WhiteSpace))

\* s.slice(i - 1): the characters of s from index i (1-based) on.
From(s, i) == SubSeq(s, i, Len(s))

\* Concatenation of a sequence of strings.
RECURSIVE Concat(_)
Concat(ss) == IF ss = <<>> THEN <<>> ELSE Head(ss) \o Concat(Tail(ss))

\* parts.join(sep)
RECURSIVE Join(_, _)
Join(parts, sep) ==
    IF parts = <<>> THEN <<>>
    ELSE IF Len(parts) = 1 THEN parts[1]
    ELSE parts[1] \o sep \o Join(Tail(parts), sep)

\* s.split(sep) for a one-character separator: the pieces between separators.
RECURSIVE Split(_, _)
Split(s, sep) ==
    LET i == FirstIn(s, {sep})
    IN  IF i > Len(s) THEN <<s>>
        ELSE <<SubSeq(s, 1, i - 1)>> \o Split(From(s, i + 1), sep)

(***************************************************************************)
(* new URL(s), for absolute URLs without a base (WHATWG URL parser).       *)
(* Covered: scheme detection, the special schemes' authority (userinfo,    *)
(* host, port), lower-casing of scheme and host, default-port removal,     *)
(* empty path as "/", query and fragment.  Not covered (no generated input *)
(* needs them): IDNA, IPv4/IPv6 hosts, dot segments, percent-encoding of   *)
(* bytes other than the space.                                             *)
(***************************************************************************)
AlphaChars == Range(UpperChars) \cup Range(LowerChars)
SchemeChars == AlphaChars \cup Range(DigitChars) \cup {"+", "-", "."}
ForbiddenHostChars ==
    {" ", "\t", "\n", "\r", "#", "/", ":", "<", ">", "?", "@", "[", "\\", "]", "^", "|", "%"}

\* Default port of each special scheme.
DefaultPort(scheme) ==
    CASE scheme = <<"h", "t", "t", "p">> -> <<"8", "0">>
      [] scheme = <<"h", "t", "t", "p", "s">> -> <<"4", "4", "3">>
      [] scheme = <<"w", "s">> -> <<"8", "0">>
      [] scheme = <<"w", "s", "s">> -> <<"4", "4", "3">>
      [] scheme = <<"f", "t", "p">> -> <<"2", "1">>
      [] OTHER -> <<>>

IsSpecialScheme(scheme) == DefaultPort(scheme) # <<>>

\* Path and query bytes the parser percent-encodes: the space.
EncodeSpaces(s) ==
    Concat([i \in 1..Len(s) |-> IF s[i] = " " THEN <<"%", "2", "0">> ELSE <<s[i]>>])

InvalidUrl ==
    [ok |-> FALSE, protocol |-> <<>>, hostname |-> <<>>, port |-> <<>>,
     pathname |-> <<>>, search |-> <<>>, hash |-> <<>>, special |-> FALSE]

\* The part of a URL after "scheme:" with its slashes skipped, for a scheme
\* with an authority: authority, path, query, fragment.
ParseAfterScheme(scheme, special, body) ==
    LET authEnd == FirstIn(body, {"/", "\\", "?", "#"})
        authority == SubSeq(body, 1, authEnd - 1)
        hostport == From(authority, LastIndexOf(authority, "@") + 1)
        colon == LastIndexOf(hostport, ":")
        rawHost == IF colon = 0 THEN hostport ELSE SubSeq(hostport, 1, colon - 1)
        rawPort == IF colon = 0 THEN <<>> ELSE From(hostport, colon + 1)
        tail == From(body, authEnd)
        pathEnd == FirstIn(tail, {"?", "#"})
        path == SubSeq(tail, 1, pathEnd - 1)
        afterPath == From(tail, pathEnd)
        hashAt == FirstIn(afterPath, {"#"})
        query == IF afterPath # <<>> /\ afterPath[1] = "?"
                 THEN SubSeq(afterPath, 2, hashAt - 1) ELSE <<>>
        fragment == From(afterPath, hashAt + 1)
    IN  IF \/ (special /\ rawHost = <<>>)
           \/ Range(rawHost) \cap ForbiddenHostChars # {}
           \/ Range(rawPort) \ Range(DigitChars) # {}
           \/ Len(rawPort) > 5
        THEN InvalidUrl
        ELSE [ok |-> TRUE,
              protocol |-> scheme \o <<":">>,
              hostname |-> IF special THEN ToLowerCase(rawHost) ELSE rawHost,
              port |-> IF rawPort = DefaultPort(scheme) THEN <<>> ELSE rawPort,
              pathname |-> IF path = <<>> /\ special THEN <<"/">> ELSE EncodeSpaces(path),
              search |-> IF query = <<>> THEN <<>> ELSE <<"?">> \o EncodeSpaces(query),
              hash |-> IF fragment = <<>> THEN <<>> ELSE <<"#">> \o fragment,
              special |-> special]

\* Mutant of ParseURL: text without a scheme is read as an https URL.
ParseURLDefaultScheme(s) ==
    LET colon == FirstNotIn(s, SchemeChars)
        hasScheme == /\ s # <<>>
                     /\ s[1] \in AlphaChars
                     /\ colon <= Len(s)
                     /\ s[colon] = ":"
        scheme == ToLowerCase(SubSeq(s, 1, colon - 1))
        rest == From(s, colon + 1)
    IN  IF ~hasScheme THEN ParseAfterScheme(<<"h", "t", "t", "p", "s">>, TRUE, s)
        ELSE IF IsSpecialScheme(scheme)
             THEN ParseAfterScheme(scheme, TRUE, From(rest, FirstNotIn(rest, {"/", "\\"})))
        ELSE IF StartsWith(rest, <<"/", "/">>)
             THEN ParseAfterScheme(scheme, FALSE, From(rest, 3))
        ELSE [InvalidUrl EXCEPT !.ok = TRUE, !.protocol = scheme \o <<":">>,
                                !.pathname = rest]

\* new URL(s): [ok |-> FALSE] models the TypeError it throws.
ParseURL(s) ==
    LET colon == FirstNotIn(s, SchemeChars)
        hasScheme == /\ s # <<>>
                     /\ s[1] \in AlphaChars
                     /\ colon <= Len(s)
                     /\ s[colon] = ":"
        scheme == ToLowerCase(SubSeq(s, 1, colon - 1))
        rest == From(s, colon + 1)
    IN  IF ~hasScheme THEN InvalidUrl
        ELSE IF IsSpecialScheme(scheme)
             THEN ParseAfterScheme(scheme, TRUE, From(rest, FirstNotIn(rest, {"/", "\\"})))
        ELSE IF StartsWith(rest, <<"/", "/">>)
             THEN ParseAfterScheme(scheme, FALSE, From(rest, 3))
        ELSE [InvalidUrl EXCEPT !.ok = TRUE, !.protocol = scheme \o <<":">>,
                                !.pathname = rest]

\* url.origin
Origin(url) ==
    IF url.special
    THEN url.protocol \o <<"/", "/">> \o url.hostname
         \o (IF url.port = <<>> THEN <<>> ELSE <<":">> \o url.port)
    ELSE <<"n", "u", "l", "l">>

\* url.toString()
Href(url) ==
    IF url.special
    THEN Origin(url) \o url.pathname \o url.search \o url.hash
    ELSE url.protocol \o url.pathname \o url.search \o url.hash

(***************************************************************************)
(* URLSearchParams: a list of <<name, value>> pairs.                       *)
(***************************************************************************)
PlusToSpace(s) == [i \in 1..Len(s) |-> IF s[i] = "+" THEN " " ELSE s[i]]
SpaceToPlus(s) == [i \in 1..Len(s) |-> IF s[i] = " " THEN "+" ELSE s[i]]

\* One "name=value" piece of a query string, split at its first "=".
ParsePair(piece) ==
    LET eq == FirstIn(piece, {"="})
    IN  <<PlusToSpace(SubSeq(piece, 1, eq - 1)), PlusToSpace(From(piece, eq + 1))>>

\* new URLSearchParams(search): a leading "?" is dropped, empty pieces skipped.
URLSearchParams(search) ==
    LET query == IF search # <<>> /\ search[1] = "?" THEN Tail(search) ELSE search
        pieces == SelectSeq(Split(query, "&"), LAMBDA p : p # <<>>)
    IN  [i \in 1..Len(pieces) |-> ParsePair(pieces[i])]

\* params.get(name): the first value under that name, or null.
ParamsGet(params, name) ==
    LET hits == SelectSeq(params, LAMBDA p : p[1] = name)
    IN  IF hits = <<>> THEN [isNull |-> TRUE, value |-> <<>>]
        ELSE [isNull |-> FALSE, value |-> hits[1][2]]

\* Mutant of ParamsDelete: only the first pair under that name goes.
ParamsDeleteFirst(params, name) ==
    LET i == CHOOSE k \in 1..(Len(params) + 1) :
                 /\ (k <= Len(params) => params[k][1] = name)
                 /\ \A j \in 1..(k - 1) : params[j][1] # name
    IN  SubSeq(params, 1, i - 1) \o SubSeq(params, i + 1, Len(params))

\* params.delete(name): every pair under that name goes.
ParamsDelete(params, name) == SelectSeq(params, LAMBDA p : p[1] # name)

\* params.toString()
ParamsToString(params) ==
    Join([i \in 1..Len(params) |->
            SpaceToPlus(params[i][1]) \o <<"=">> \o SpaceToPlus(params[i][2])],
         <<"&">>)

(***************************************************************************)
(* Results of a call: a returned string or a thrown CrossmintOrderError.   *)
(***************************************************************************)
Returned(s) == [kind |-> "returned", value |-> s, status |-> 0, message |-> ""]
Thrown(message, status) ==
    [kind |-> "thrown", value |-> <<>>, status |-> status, message |-> message]
Pending == [kind |-> "pending", value |-> <<>>, status |-> 0, message |-> ""]

EmptyInputMessage == "Product URL is required"
MalformedUrlMessage == "Product URL must be a valid URL"
MissingVariantMessage == "Shopify product URL must include variant parameter"
BAD_REQUEST == 400

(***************************************************************************)
(* Static tables.                                                          *)
(***************************************************************************)
PLATFORM_HOSTNAMES ==
    [amazon |-> <<<<"a", "m", "a", "z", "o", "n", ".">>>>,
     shopify |-> <<<<"m", "y", "s", "h", "o", "p", "i", "f", "y", ".", "c", "o", "m">>>>,
     browserAutomation |->
        <<<<"n", "i", "k", "e", ".", "c", "o", "m">>, <<"w", "w", "w", ".", "n", "i", "k", "e", ".", "c", "o", "m">>, <<"a", "d", "i", "d", "a", "s", ".", "c", "o", "m">>, <<"w", "w", "w", ".", "a", "d", "i", "d", "a", "s", ".", "c", "o", "m">>,
          <<"c", "r", "o", "c", "s", ".", "c", "o", "m">>, <<"w", "w", "w", ".", "c", "r", "o", "c", "s", ".", "c", "o", "m">>, <<"g", "y", "m", "s", "h", "a", "r", "k", ".", "c", "o", "m">>, <<"w", "w", "w", ".", "g", "y", "m", "s", "h", "a", "r", "k", ".", "c", "o", "m">>,
          <<"o", "n", ".", "c", "o", "m">>, <<"w", "w", "w", ".", "o", "n", ".", "c", "o", "m">>>>]

PRODUCT_LOCATOR_PREFIXES == <<<<"a", "m", "a", "z", "o", "n", ":">>, <<"s", "h", "o", "p", "i", "f", "y", ":">>, <<"u", "r", "l", ":">>>>

SHOPIFY_HEADER_PREFIXES == <<<<"x", "-", "s", "h", "o", "p", "i", "f", "y">>>>

\* The probe's setTimeout delay, in milliseconds.
PROBE_TIMEOUT_MS == 5000

\* Mutant of BuildShopifyLocator: the check of variantId is left out.
BuildShopifyLocatorUnchecked(url) ==
    LET variantId == ParamsGet(URLSearchParams(url.search), <<"v", "a", "r", "i", "a", "n", "t">>)
        query == ParamsToString(ParamsDelete(URLSearchParams(url.search), <<"v", "a", "r", "i", "a", "n", "t">>))
        normalizedUrl == Origin(url) \o url.pathname
                         \o (IF query # <<>> THEN <<"?">> \o query ELSE <<>>)
    IN  Returned(<<"s", "h", "o", "p", "i", "f", "y", ":">> \o normalizedUrl \o <<":">> \o variantId.value)

\* buildShopifyLocator(url)
BuildShopifyLocator(url) ==
    LET variantId == ParamsGet(URLSearchParams(url.search), <<"v", "a", "r", "i", "a", "n", "t">>)
        normalizedParams == ParamsDelete(URLSearchParams(url.search), <<"v", "a", "r", "i", "a", "n", "t">>)
        query == ParamsToString(normalizedParams)
        normalizedUrl == Origin(url) \o url.pathname
                         \o (IF query # <<>> THEN <<"?">> \o query ELSE <<>>)
    IN  IF variantId.isNull \/ variantId.value = <<>>
        THEN Thrown(MissingVariantMessage, BAD_REQUEST)
        ELSE Returned(<<"s", "h", "o", "p", "i", "f", "y", ":">> \o normalizedUrl \o <<":">> \o variantId.value)

(***************************************************************************)
(* resolveProductLocator: the hostname rules.                              *)
(***************************************************************************)
\* PLATFORM_HOSTNAMES.amazon.some((domain) => hostname.includes(domain))
IsAmazonHost(hostname) ==
    \E i \in DOMAIN PLATFORM_HOSTNAMES.amazon :
        Includes(hostname, PLATFORM_HOSTNAMES.amazon[i])

\* PLATFORM_HOSTNAMES.shopify.some((domain) => hostname.includes(domain))
IsShopifyHost(hostname) ==
    \E i \in DOMAIN PLATFORM_HOSTNAMES.shopify :
        Includes(hostname, PLATFORM_HOSTNAMES.shopify[i])

\* Mutant of IsBrowserAutomationDomain: subdomains are not matched.
IsBrowserAutomationDomainExact(hostname) ==
    \E i \in DOMAIN PLATFORM_HOSTNAMES.browserAutomation :
        hostname = PLATFORM_HOSTNAMES.browserAutomation[i]

\* hostname === domain || hostname.endsWith(`.${domain}`), for some domain
IsBrowserAutomationDomain(hostname) ==
    \E i \in DOMAIN PLATFORM_HOSTNAMES.browserAutomation :
        LET domain == PLATFORM_HOSTNAMES.browserAutomation[i]
        IN  hostname = domain \/ EndsWith(hostname, <<".">> \o domain)

\* Mutant of Classify: the browser-automation test comes first.
ClassifyAutomationFirst(hostname) ==
    IF IsBrowserAutomationDomain(hostname) THEN "browserAutomation"
    ELSE IF IsAmazonHost(hostname) THEN "amazon"
    ELSE IF IsShopifyHost(hostname) THEN "shopify"
    ELSE "unknown"

\* The order of the three hostname tests; "unknown" leads to the probe.
Classify(hostname) ==
    IF IsAmazonHost(hostname) THEN "amazon"
    ELSE IF IsShopifyHost(hostname) THEN "shopify"
    ELSE IF IsBrowserAutomationDomain(hostname) THEN "browserAutomation"
    ELSE "unknown"

\* Mutant of HasLocatorPrefix: the prefix is compared as written.
HasLocatorPrefixAsWritten(trimmed) ==
    \E i \in DOMAIN PRODUCT_LOCATOR_PREFIXES :
        StartsWith(trimmed, PRODUCT_LOCATOR_PREFIXES[i])

\* PRODUCT_LOCATOR_PREFIXES.find((prefix) => trimmed.toLowerCase().startsWith(prefix))
HasLocatorPrefix(trimmed) ==
    \E i \in DOMAIN PRODUCT_LOCATOR_PREFIXES :
        StartsWith(ToLowerCase(trimmed), PRODUCT_LOCATOR_PREFIXES[i])

\* Mutant of AmazonLocator: the URL is lower-cased on the way.
AmazonLocatorLowered(trimmed) == <<"a", "m", "a", "z", "o", "n", ":">> \o ToLowerCase(trimmed)

\* `amazon:${trimmed}`
AmazonLocator(trimmed) == <<"a", "m", "a", "z", "o", "n", ":">> \o trimmed

\* Mutant of UrlLocator: the prefix is left out.
UrlLocatorBare(trimmed) == trimmed

\* `url:${trimmed}`
UrlLocator(trimmed) == <<"u", "r", "l", ":">> \o trimmed

\* Mutant of TrimInput: the argument is not trimmed.
TrimInputSkipped(rawProductUrl) == rawProductUrl

\* The value of `trimmed` in resolveProductLocator.
TrimInput(rawProductUrl) == Trim(rawProductUrl)

\* Mutant of Passthrough: the lower-cased copy that was tested is returned.
PassthroughLowered(trimmed) == Returned(ToLowerCase(trimmed))

\* What the already-prefixed branch returns.
Passthrough(trimmed) == Returned(trimmed)

\* resolveProductLocator up to its await: the result when it is decided
\* without the probe, Pending when isShopifyStorefront is awaited.
ResolveFast(raw) ==
    LET t == TrimInput(raw)
        url == ParseURL(t)
        hostname == ToLowerCase(url.hostname)
        class == Classify(hostname)
    IN  IF t = <<>> THEN Thrown(EmptyInputMessage, BAD_REQUEST)
        ELSE IF HasLocatorPrefix(t) THEN Passthrough(t)
        ELSE IF ~url.ok THEN Thrown(MalformedUrlMessage, BAD_REQUEST)
        ELSE IF class = "amazon" THEN Returned(AmazonLocator(t))
        ELSE IF class = "shopify" THEN BuildShopifyLocator(url)
        ELSE IF class = "browserAutomation" THEN Returned(UrlLocator(t))
        ELSE Pending

\* Mutant of ResolveAfterProbe: the probe's answer is not looked at.
ResolveAfterProbeUrlOnly(t, url, detectedShopify) == Returned(UrlLocator(t))

\* resolveProductLocator after the probe has answered.
ResolveAfterProbe(t, url, detectedShopify) ==
    IF detectedShopify THEN BuildShopifyLocator(url) ELSE Returned(UrlLocator(t))

(***************************************************************************)
(* isShopifyStorefront.                                                    *)
(***************************************************************************)
\* Mutant of InspectHeaders: header names are not looked at.
InspectHeaderValuesOnly(headers) ==
    \E i \in DOMAIN headers : Includes(ToLowerCase(headers[i][2]), <<"s", "h", "o", "p", "i", "f", "y">>)

\* inspectHeaders(headers): headers is a list of <<name, value>> pairs.
InspectHeaders(headers) ==
    \E i \in DOMAIN headers :
        \/ \E p \in DOMAIN SHOPIFY_HEADER_PREFIXES :
              StartsWith(ToLowerCase(headers[i][1]), SHOPIFY_HEADER_PREFIXES[p])
        \/ Includes(ToLowerCase(headers[i][2]), <<"s", "h", "o", "p", "i", "f", "y">>)

\* Mutant of CatchResult: a failed request counts as detected.
CatchResultDetected == TRUE

\* What tryFetch returns from its catch block.
CatchResult == FALSE

\* Mutant of TryFetchResult: only a 2xx response is inspected.
TryFetchResultOkOnly(r) ==
    r.status >= 200 /\ r.status < 300 /\ InspectHeaders(r.headers)

\* What tryFetch returns for the response r that fetch resolved with.
TryFetchResult(r) == InspectHeaders(r.headers)

\* Mutant of ClearTimeout: the timer is left as it is.
ClearTimeoutSkipped(timer) == timer

\* clearTimeout(timeout): a pending timer is cancelled, any other is left.
ClearTimeout(timer) == IF timer = "pending" THEN "cleared" ELSE timer

(***************************************************************************)
(* The inputs of a call and the answers of the probed site.                *)
(***************************************************************************)
SeqsUpTo(S, n) == UNION {[1..k -> S] : k \in 0..n}

\* White space around the input.
Pads == {<<>>, <<" ">>}

\* The generated URLs up to their path, as typed (text).  The other fields are
\* what is expected of each, written by hand and never read by the code:
\* origin and path as a URL parser normalises them (canon), and which of the
\* hostname rules the host matches.
Base(text, canon, amazon, shopify, automation) ==
    [text |-> text, canon |-> canon, amazon |-> amazon, shopify |-> shopify,
     automation |-> automation]

Bases ==
    { Base(<<"h", "t", "t", "p", "s", ":", "/", "/", "w", "w", "w", ".", "a", "m", "a", "z", "o", "n", ".", "c", "o", "m", "/", "d", "p", "/", "B", "0", "8", "N", "5", "W", "R", "W", "N", "W">>,
           <<"h", "t", "t", "p", "s", ":", "/", "/", "w", "w", "w", ".", "a", "m", "a", "z", "o", "n", ".", "c", "o", "m", "/", "d", "p", "/", "B", "0", "8", "N", "5", "W", "R", "W", "N", "W">>, TRUE, FALSE, FALSE),
      Base(<<"h", "t", "t", "p", "s", ":", "/", "/", "W", "W", "W", ".", "A", "m", "a", "z", "o", "n", ".", "C", "O", "M", "/", "d", "p">>,
           <<"h", "t", "t", "p", "s", ":", "/", "/", "w", "w", "w", ".", "a", "m", "a", "z", "o", "n", ".", "c", "o", "m", "/", "d", "p">>, TRUE, FALSE, FALSE),
      Base(<<"h", "t", "t", "p", "s", ":", "/", "/", "a", "m", "a", "z", "o", "n", ".", "n", "i", "k", "e", ".", "c", "o", "m", "/", "t">>,
           <<"h", "t", "t", "p", "s", ":", "/", "/", "a", "m", "a", "z", "o", "n", ".", "n", "i", "k", "e", ".", "c", "o", "m", "/", "t">>, TRUE, FALSE, TRUE),
      Base(<<"h", "t", "t", "p", "s", ":", "/", "/", "a", "m", "a", "z", "o", "n", ".", "m", "y", "s", "h", "o", "p", "i", "f", "y", ".", "c", "o", "m", "/", "p">>,
           <<"h", "t", "t", "p", "s", ":", "/", "/", "a", "m", "a", "z", "o", "n", ".", "m", "y", "s", "h", "o", "p", "i", "f", "y", ".", "c", "o", "m", "/", "p">>, TRUE, TRUE, FALSE),
      Base(<<"h", "t", "t", "p", "s", ":", "/", "/", "s", "h", "o", "p", ".", "m", "y", "s", "h", "o", "p", "i", "f", "y", ".", "c", "o", "m", "/", "p", "r", "o", "d", "u", "c", "t", "s", "/", "w", "i", "d", "g", "e", "t">>,
           <<"h", "t", "t", "p", "s", ":", "/", "/", "s", "h", "o", "p", ".", "m", "y", "s", "h", "o", "p", "i", "f", "y", ".", "c", "o", "m", "/", "p", "r", "o", "d", "u", "c", "t", "s", "/", "w", "i", "d", "g", "e", "t">>, FALSE, TRUE, FALSE),
      Base(<<"H", "T", "T", "P", "S", ":", "/", "/", "S", "h", "o", "p", ".", "M", "y", "S", "h", "o", "p", "i", "f", "y", ".", "c", "o", "m">>,
           <<"h", "t", "t", "p", "s", ":", "/", "/", "s", "h", "o", "p", ".", "m", "y", "s", "h", "o", "p", "i", "f", "y", ".", "c", "o", "m", "/">>, FALSE, TRUE, FALSE),
      Base(<<"h", "t", "t", "p", "s", ":", "/", "/", "s", "h", "o", "p", ".", "m", "y", "s", "h", "o", "p", "i", "f", "y", ".", "c", "o", "m", ":", "8", "0", "8", "0", "/", "p">>,
           <<"h", "t", "t", "p", "s", ":", "/", "/", "s", "h", "o", "p", ".", "m", "y", "s", "h", "o", "p", "i", "f", "y", ".", "c", "o", "m", ":", "8", "0", "8", "0", "/", "p">>, FALSE, TRUE, FALSE),
      Base(<<"h", "t", "t", "p", "s", ":", "/", "/", "m", "y", "s", "h", "o", "p", "i", "f", "y", ".", "c", "o", "m", ".", "n", "i", "k", "e", ".", "c", "o", "m", "/", "p">>,
           <<"h", "t", "t", "p", "s", ":", "/", "/", "m", "y", "s", "h", "o", "p", "i", "f", "y", ".", "c", "o", "m", ".", "n", "i", "k", "e", ".", "c", "o", "m", "/", "p">>, FALSE, TRUE, TRUE),
      Base(<<"h", "t", "t", "p", "s", ":", "/", "/", "n", "i", "k", "e", ".", "c", "o", "m", "/", "t">>,
           <<"h", "t", "t", "p", "s", ":", "/", "/", "n", "i", "k", "e", ".", "c", "o", "m", "/", "t">>, FALSE, FALSE, TRUE),
      Base(<<"h", "t", "t", "p", "s", ":", "/", "/", "s", "h", "o", "p", ".", "o", "n", ".", "c", "o", "m", "/", "p">>,
           <<"h", "t", "t", "p", "s", ":", "/", "/", "s", "h", "o", "p", ".", "o", "n", ".", "c", "o", "m", "/", "p">>, FALSE, FALSE, TRUE),
      Base(<<"h", "t", "t", "p", "s", ":", "/", "/", "w", "w", "w", ".", "a", "d", "i", "d", "a", "s", ".", "c", "o", "m">>,
           <<"h", "t", "t", "p", "s", ":", "/", "/", "w", "w", "w", ".", "a", "d", "i", "d", "a", "s", ".", "c", "o", "m", "/">>, FALSE, FALSE, TRUE),
      Base(<<"h", "t", "t", "p", "s", ":", "/", "/", "n", "o", "t", "n", "i", "k", "e", ".", "c", "o", "m", "/", "t">>,
           <<"h", "t", "t", "p", "s", ":", "/", "/", "n", "o", "t", "n", "i", "k", "e", ".", "c", "o", "m", "/", "t">>, FALSE, FALSE, FALSE),
      Base(<<"h", "t", "t", "p", "s", ":", "/", "/", "a", "m", "a", "z", "o", "n", "/", "d", "p">>,
           <<"h", "t", "t", "p", "s", ":", "/", "/", "a", "m", "a", "z", "o", "n", "/", "d", "p">>, FALSE, FALSE, FALSE),
      Base(<<"h", "t", "t", "p", "s", ":", "/", "/", "S", "t", "o", "r", "e", ".", "E", "x", "a", "m", "p", "l", "e", ".", "c", "o", "m">>,
           <<"h", "t", "t", "p", "s", ":", "/", "/", "s", "t", "o", "r", "e", ".", "e", "x", "a", "m", "p", "l", "e", ".", "c", "o", "m", "/">>, FALSE, FALSE, FALSE),
      Base(<<"h", "t", "t", "p", ":", "/", "/", "e", "x", "a", "m", "p", "l", "e", ".", "c", "o", "m", ":", "8", "0", "8", "0", "/", "p">>,
           <<"h", "t", "t", "p", ":", "/", "/", "e", "x", "a", "m", "p", "l", "e", ".", "c", "o", "m", ":", "8", "0", "8", "0", "/", "p">>, FALSE, FALSE, FALSE) }

\* Query parameters as typed (text).  Expected of each, written by hand: its
\* name, its value, and how URLSearchParams writes it back (out).
ParamTokens ==
    { [text |-> <<"v", "a", "r", "i", "a", "n", "t", "=", "1", "2", "3">>, name |-> <<"v", "a", "r", "i", "a", "n", "t">>, value |-> <<"1", "2", "3">>, out |-> <<"v", "a", "r", "i", "a", "n", "t", "=", "1", "2", "3">>],
      [text |-> <<"v", "a", "r", "i", "a", "n", "t", "=">>, name |-> <<"v", "a", "r", "i", "a", "n", "t">>, value |-> <<>>, out |-> <<"v", "a", "r", "i", "a", "n", "t", "=">>],
      [text |-> <<"c", "o", "l", "o", "r", "=", "r", "e", "d">>, name |-> <<"c", "o", "l", "o", "r">>, value |-> <<"r", "e", "d">>, out |-> <<"c", "o", "l", "o", "r", "=", "r", "e", "d">>],
      [text |-> <<"f", "l", "a", "g">>, name |-> <<"f", "l", "a", "g">>, value |-> <<>>, out |-> <<"f", "l", "a", "g", "=">>] }

Fragments == {<<>>, <<"f">>}

\* Locators a caller resolved beforehand, in several letter cases.
PrefixedBodies ==
    { <<"a", "m", "a", "z", "o", "n", ":", "B", "0", "8", "N", "5", "W", "R", "W", "N", "W">>, <<"A", "M", "A", "Z", "O", "N", ":", "B", "0", "8", "N", "5", "W", "R", "W", "N", "W">>, <<"S", "h", "o", "p", "i", "f", "y", ":", "h", "t", "t", "p", "s", ":", "/", "/", "a", ".", "i", "o", "/", "p", ":", "1">>,
      <<"u", "r", "l", ":", "h", "t", "t", "p", "s", ":", "/", "/", "w", "w", "w", ".", "n", "i", "k", "e", ".", "c", "o", "m", "/", "t">>, <<"U", "R", "L", ":", "x", " ", "y">>, <<"u", "r", "l", ":">> }

\* Text that is neither empty, nor prefixed, nor an absolute URL.
TextBodies == { <<"n", "o", "t", " ", "a", " ", "u", "r", "l">>, <<"w", "w", "w", ".", "n", "i", "k", "e", ".", "c", "o", "m", "/", "t">>, <<"a", "m", "a", "z", "o", "n">>, <<"/", "/", "s", "h", "o", "p", ".", "m", "y", "s", "h", "o", "p", "i", "f", "y", ".", "c", "o", "m", "/", "p">> }

UrlText(base, params, fragment) ==
    base.text
    \o (IF params = <<>> THEN <<>>
        ELSE <<"?">> \o Join([i \in 1..Len(params) |-> params[i].text], <<"&">>))
    \o (IF fragment = <<>> THEN <<>> ELSE <<"#">> \o fragment)

NoUrl == [base |-> Base(<<>>, <<>>, FALSE, FALSE, FALSE), params |-> <<>>, fragment |-> <<>>]

\* An input: what is typed (body) between the pads and, for a URL, its parts.
Inputs ==
    {[kind |-> "url", lead |-> l, trail |-> r, body |-> UrlText(b, q, f),
      url |-> [base |-> b, params |-> q, fragment |-> f]] :
        l \in Pads, r \in Pads, b \in Bases,
        q \in SeqsUpTo(ParamTokens, MaxParams), f \in Fragments}
    \cup {[kind |-> "prefixed", lead |-> l, trail |-> r, body |-> b, url |-> NoUrl] :
            l \in Pads, r \in Pads, b \in PrefixedBodies}
    \cup {[kind |-> "text", lead |-> l, trail |-> r, body |-> b, url |-> NoUrl] :
            l \in Pads, r \in Pads, b \in TextBodies}
    \cup {[kind |-> "empty", lead |-> l, trail |-> r, body |-> <<>>, url |-> NoUrl] :
            l \in Pads, r \in Pads}

RawOf(i) == i.lead \o i.body \o i.trail

\* Responses a probed site may give: any status, any headers.  vendor and
\* mention are written by hand and never read by the code: whether a header
\* name starts with x-shopify, and whether a header value mentions shopify.
Response(status, headers, vendor, mention) ==
    [status |-> status, headers |-> headers, vendor |-> vendor, mention |-> mention]

Responses ==
    { Response(200, << <<<<"s", "e", "r", "v", "e", "r">>, <<"n", "g", "i", "n", "x">>>> >>, FALSE, FALSE),
      Response(404, << <<<<"x", "-", "s", "h", "o", "p", "i", "d">>, <<"1">>>>, <<<<"v", "i", "a">>, <<"s", "h", "o", "p", " ", "i", "f", "y">>>> >>, FALSE, FALSE),
      Response(404, << <<<<"s", "e", "r", "v", "e", "r">>, <<"n", "g", "i", "n", "x">>>>, <<<<"X", "-", "S", "h", "o", "p", "i", "f", "y", "-", "S", "t", "a", "g", "e">>, <<"p", "r", "o", "d", "u", "c", "t", "i", "o", "n">>>> >>,
               TRUE, FALSE),
      Response(200, << <<<<"p", "o", "w", "e", "r", "e", "d", "-", "b", "y">>, <<"S", "h", "o", "p", "i", "f", "y">>>> >>, FALSE, TRUE) }

NoResponse == Response(0, <<>>, FALSE, FALSE)

(***************************************************************************)
(* State of one call of resolveProductLocator.                             *)
(***************************************************************************)
VARIABLES
    input,          \* the parts the argument was typed from (never read by the code)
    rawProductUrl,  \* the argument
    pc,             \* "start", "head" (awaiting HEAD), "get" (awaiting GET), "done"
    trimmed,        \* local of resolveProductLocator
    parsedUrl,      \* local of resolveProductLocator
    timeout,        \* the probe's timer: "unset", "pending", "fired", "cleared"
    aborted,        \* controller.signal.aborted
    now,            \* milliseconds since the call started
    deadline,       \* when the timer is due
    fetches,        \* the fetch calls so far, in order
    detected,       \* what isShopifyStorefront returned: "none", "yes", "no"
    result          \* what the call returned or threw

resolverVars == <<input, rawProductUrl, pc, trimmed, parsedUrl, timeout, aborted, now,
                  deadline, fetches, detected, result>>

(***************************************************************************)
(* State of the HTTP application: one request at a time goes down the      *)
(* middleware chain of its route.                                          *)
(***************************************************************************)
VARIABLES
    request,        \* the request being served
    stage,          \* the middleware or handler the request is at
    trace,          \* the middlewares and handlers invoked for the request, in order
    reply,          \* the response so far
    validatedBody,  \* c.get("validatedBody")
    locator,        \* what resolveProductLocator returned or threw for the request
    orders,         \* the orders_x402 table: the row of each order id
    users,          \* the users_x402 table: a set of rows
    issued,         \* the clientSecrets saved for each order id, oldest first (never read by the code)
    providerCalls,  \* requests sent to the fulfillment provider for the request
    transactions,   \* calls of saveOrderRecord for the request, and how each ended
    served          \* how many requests have arrived

appVars == <<request, stage, trace, reply, validatedBody, locator, orders, users,
             issued, providerCalls, transactions, served>>

(***************************************************************************)
(* State of several calls of resolveProductLocator running interleaved in  *)
(* one process.                                                            *)
(***************************************************************************)
VARIABLES
    calls,          \* the locals of each call
    controllers,    \* signal.aborted of each AbortController created
    clock,          \* milliseconds since the process started
    hostnames       \* the contents of PLATFORM_HOSTNAMES at run time

callVars == <<calls, controllers, clock, hostnames>>

(***************************************************************************)
(* State of several calls of saveOrderRecord running interleaved, each in  *)
(* its own database transaction on the tables users and orders.            *)
(***************************************************************************)
VARIABLES
    saves           \* the arguments, position and uncommitted writes of each call

saveVars == <<saves>>

(***************************************************************************)
(* State of the checkout console (the React component of the web client).  *)
(***************************************************************************)
VARIABLES
    form,                \* the order form
    step,                \* Step
    consoleResult,       \* the state named result: a ResultState
    lastPayload,         \* the payload of the last submit answered 402, or null
    pendingTransfer,     \* the decoded payment transaction of the order, or null
    sendingTransfer,     \* finalizeOrderPayment is in flight
    transferError,
    transferSignature,
    paymentRequirements, \* the requirement selected from the last 402 answer, or null
    x402Version,
    publicKey,           \* useWallet().publicKey, null while no wallet is connected
    running,             \* the handler whose request is in flight, and its payload
    history              \* the runs of handleSubmit and authorizePayment so far

consoleVars == <<form, step, consoleResult, lastPayload, pendingTransfer, sendingTransfer,
                 transferError, transferSignature, paymentRequirements, x402Version,
                 publicKey, running, history>>

vars == <<resolverVars, appVars, callVars, saveVars, consoleVars>>

\* A fetch call: sent says whether a network request went out.
FetchCall(method, sent, at) ==
    [method |-> method, sent |-> sent, issuedAt |-> at, settledAt |-> at,
     outcome |-> IF sent THEN "inflight" ELSE "aborted", response |-> NoResponse]

\* The last fetch call settled with the given outcome.
Settle(log, outcome, response, at) ==
    [log EXCEPT ![Len(log)] =
        [@ EXCEPT !.outcome = outcome, !.response = response, !.settledAt = at]]

(***************************************************************************)
(* Values of the HTTP application.                                         *)
(***************************************************************************)
OK == 200
CREATED == 201
UNAUTHORIZED == 401
PAYMENT_REQUIRED == 402
FORBIDDEN == 403
NOT_FOUND == 404
INTERNAL_SERVER_ERROR == 500
BAD_GATEWAY == 502
SALT_ROUNDS == 10

\* A request header: absent, or present with a value.
NoHeader == [present |-> FALSE, value |-> ""]
Header(v) == [present |-> TRUE, value |-> v]

\* A JSON body: whether it is JSON at all, whether the fields other than
\* productUrl pass the schema, and productUrl.
Body(wellFormed, fieldsOk, productUrl) ==
    [wellFormed |-> wellFormed, fieldsOk |-> fieldsOk, productUrl |-> productUrl,
     email |-> "a@example.com", payerAddress |-> "wallet-a"]
NoBody == Body(FALSE, FALSE, <<>>)

\* expect is written by hand and never read by the code: what the resolver
\* is expected to make of the body's productUrl.
Request(method, path, body, expect, payment, orderId, authorization) ==
    [method |-> method, path |-> path, body |-> body, expect |-> expect,
     payment |-> payment, orderId |-> orderId, authorization |-> authorization]
NoRequest == Request("", "", NoBody, "", "none", "", NoHeader)

HttpResponse(status, error, orderId, clientSecret) ==
    [status |-> status, error |-> error, orderId |-> orderId, clientSecret |-> clientSecret]
ErrorResponse(status, error) == HttpResponse(status, error, "", "")
NoHttpResponse == ErrorResponse(0, "")

\* createHash("sha256").update(secret).digest("hex")
HashClientSecret(secret) == [alg |-> "sha256", data |-> secret]

\* bcrypt.hash(data, rounds), with the salt bcrypt draws.
BcryptHash(data, rounds, salt) ==
    [alg |-> "bcrypt", rounds |-> rounds, salt |-> salt, data |-> data]
NoHash == [alg |-> "none", rounds |-> 0, salt |-> "", data |-> HashClientSecret("")]

\* A row of the users table.
UserRow(id, walletAddress, network, email) ==
    [id |-> id, walletAddress |-> walletAddress, network |-> network, email |-> email]

\* Ids the database draws for new users rows (defaultRandom).
UserIds == {"user-1", "user-2", "user-3"}

\* A row of the orders table.
OrderRow(id, userId, network, hash) ==
    [id |-> id, userId |-> userId, network |-> network, clientSecret |-> hash]

\* What db.select({clientSecret}).from(orders).where(eq(orders.id, id)).limit(1)
\* gives: the first row found, or none.
NoRow == [found |-> FALSE, clientSecret |-> NoHash]
SelectOrder(table, id) ==
    IF \E o \in table : o.id = id
    THEN [found |-> TRUE, clientSecret |-> (CHOOSE o \in table : o.id = id).clientSecret]
    ELSE NoRow

\* Mutant of UpsertUser: a plain insert on a table without the unique index.
InsertUser(table, id, walletAddress, network, email) ==
    table \cup {UserRow(id, walletAddress, network, email)}

\* insert(users).values(...).onConflictDoUpdate({target: [walletAddress,
\* network], set: {email}}): the table afterwards.  id is the id drawn for a
\* new row.
UpsertUser(table, id, walletAddress, network, email) ==
    IF \E u \in table : u.walletAddress = walletAddress /\ u.network = network
    THEN {IF u.walletAddress = walletAddress /\ u.network = network
          THEN [u EXCEPT !.email = email] ELSE u : u \in table}
    ELSE table \cup {UserRow(id, walletAddress, network, email)}

\* .returning({id: users.id}) of that statement.
ReturnedUserId(table, walletAddress, network) ==
    (CHOOSE u \in table : u.walletAddress = walletAddress /\ u.network = network).id

\* Mutant of UpsertOrder: a plain insert on a table without the primary key.
InsertOrder(table, id, userId, network, hash) ==
    table \cup {OrderRow(id, userId, network, hash)}

\* insert(orders).values(...).onConflictDoUpdate({target: orders.id, set:
\* {userId, network, clientSecret}}): the table afterwards.
UpsertOrder(table, id, userId, network, hash) ==
    IF \E o \in table : o.id = id
    THEN {IF o.id = id THEN OrderRow(id, userId, network, hash) ELSE o : o \in table}
    ELSE table \cup {OrderRow(id, userId, network, hash)}

\* Order ids the provider hands out (UUIDs), and a path segment that is none.
Uuids == {"550e8400-e29b-41d4-a716-446655440000", "6ba7b810-9dad-11d1-80b4-00c04fd430c8"}
NotUuid == "solana"

\* The clientSecret last saved for an order id, "" when none was.
LastIssued(id) == IF issued[id] = <<>> THEN "" ELSE issued[id][Len(issued[id])]

\* No request is being served, nothing is stored.
AppIdle ==
    /\ request = NoRequest
    /\ stage = "idle"
    /\ trace = <<>>
    /\ reply = NoHttpResponse
    /\ validatedBody = NoBody
    /\ locator = Pending
    /\ orders = {}
    /\ users = {}
    /\ issued = [id \in Uuids |-> <<>>]
    /\ providerCalls = <<>>
    /\ transactions = <<>>
    /\ served = 0

(***************************************************************************)
(* Values of interleaved calls.                                            *)
(***************************************************************************)
CallIds == {1, 2}

NoInput == [kind |-> "none", lead |-> <<>>, trail |-> <<>>, body |-> <<>>, url |-> NoUrl]

\* The locals of a call that has not started.
NewCall(i) ==
    [input |-> i, rawProductUrl |-> RawOf(i), pc |-> "start", trimmed |-> <<>>,
     parsedUrl |-> InvalidUrl, timeout |-> "unset", controller |-> 0, startedAt |-> 0,
     deadline |-> 0, fetches |-> <<>>, detected |-> "none", result |-> Pending]

\* No call is running.
CallsIdle ==
    /\ calls = [c \in CallIds |-> NewCall(NoInput)]
    /\ controllers = [c \in CallIds |-> FALSE]
    /\ clock = 0
    /\ hostnames = PLATFORM_HOSTNAMES

\* No single call is being followed.
ResolverIdle ==
    /\ input = NoInput
    /\ rawProductUrl = <<>>
    /\ pc = "done"
    /\ trimmed = <<>>
    /\ parsedUrl = InvalidUrl
    /\ timeout = "unset"
    /\ aborted = FALSE
    /\ now = 0
    /\ deadline = 0
    /\ fetches = <<>>
    /\ detected = "none"
    /\ result = Pending

(***************************************************************************)
(* Values of interleaved calls of saveOrderRecord.                         *)
(***************************************************************************)
\* How many calls of saveOrderRecord run interleaved.
MaxSaves == 2
SaveIds == 1..MaxSaves

Wallets == {"wallet-a", "wallet-b"}
Emails == {"a@example.com", "b@example.com"}

\* The locals of a call: its arguments, where it is, the hash it computed,
\* the id its users upsert returned, and which of its two statements have
\* run in its open transaction.
SaveCall(orderId, email, payerAddress, network, clientSecret) ==
    [pc |-> "start", orderId |-> orderId, email |-> email, payerAddress |-> payerAddress,
     network |-> network, clientSecret |-> clientSecret, hashedSecret |-> NoHash,
     userId |-> "", userWritten |-> FALSE, orderWritten |-> FALSE]
NoSave == [SaveCall("", "", "", "", "") EXCEPT !.pc = "idle"]

\* No call of saveOrderRecord is running.
SaveIdle == saves = [s \in SaveIds |-> NoSave]

(***************************************************************************)
(* Values of the checkout console.                                         *)
(***************************************************************************)
\* An OrderPayload built from the form, or null.
Payload(payerAddress, productUrl) ==
    [present |-> TRUE, payerAddress |-> payerAddress, productUrl |-> productUrl]
NoPayload == [present |-> FALSE, payerAddress |-> "", productUrl |-> ""]

\* The JSON of a 2xx answer (a CrossmintOrderResponse), or undefined.
OrderData(orderId, serializedTransaction) ==
    [present |-> TRUE, orderId |-> orderId, serializedTransaction |-> serializedTransaction]
NoOrderData == [present |-> FALSE, orderId |-> "", serializedTransaction |-> ""]

\* ResultState: every field is optional; "" and 0 stand for an absent one.
ResultState(response, rawHeader, errorMessage, errorStatus) ==
    [response |-> response, rawHeader |-> rawHeader, errorMessage |-> errorMessage,
     errorStatus |-> errorStatus]
EmptyResult == ResultState(NoOrderData, "", "", 0)
ErrorResult(errorMessage, errorStatus) == ResultState(NoOrderData, "", errorMessage, errorStatus)

\* No handler has a request in flight.
NotRunning == [handler |-> "none", payload |-> NoPayload]

\* The console as first rendered: useState's initial values, no wallet.
ConsoleIdle ==
    /\ form = [payerAddress |-> "", productUrl |-> ""]
    /\ step = "idle"
    /\ consoleResult = EmptyResult
    /\ lastPayload = NoPayload
    /\ pendingTransfer = ""
    /\ sendingTransfer = FALSE
    /\ transferError = ""
    /\ transferSignature = ""
    /\ paymentRequirements = ""
    /\ x402Version = 0
    /\ publicKey = ""
    /\ running = NotRunning
    /\ history = <<>>

Init ==
    /\ AppIdle
    /\ CallsIdle
    /\ SaveIdle
    /\ ConsoleIdle
    /\ input \in Inputs
    /\ rawProductUrl = RawOf(input)
    /\ pc = "start"
    /\ trimmed = <<>>
    /\ parsedUrl = InvalidUrl
    /\ timeout = "unset"
    /\ aborted = FALSE
    /\ now = 0
    /\ deadline = 0
    /\ fetches = <<>>
    /\ detected = "none"
    /\ result = Pending

\* The call runs to its return or throw, or to the await of the HEAD request
\* (lines 204-244, then 254-262 and the fetch of tryFetch("HEAD")).
Resolve ==
    /\ pc = "start"
    /\ trimmed' = TrimInput(rawProductUrl)
    /\ LET fast == ResolveFast(rawProductUrl)
           url == ParseURL(trimmed')
       IN  IF fast.kind # "pending"
           THEN /\ result' = fast
                /\ parsedUrl' = IF trimmed' = <<>> \/ HasLocatorPrefix(trimmed')
                                THEN InvalidUrl ELSE url
                /\ pc' = "done"
                /\ UNCHANGED <<timeout, deadline, fetches, detected>>
           ELSE IF IsShopifyHost(ToLowerCase(url.hostname))
           THEN /\ parsedUrl' = url
                /\ detected' = "yes"
                /\ result' = ResolveAfterProbe(trimmed', url, TRUE)
                /\ pc' = "done"
                /\ UNCHANGED <<timeout, deadline, fetches>>
           ELSE /\ parsedUrl' = url
                /\ timeout' = "pending"
                /\ deadline' = now + PROBE_TIMEOUT_MS
                /\ fetches' = <<FetchCall("HEAD", TRUE, now)>>
                /\ pc' = "head"
                /\ UNCHANGED <<detected, result>>
    /\ UNCHANGED <<input, rawProductUrl, aborted, now>>
    /\ UNCHANGED <<appVars, callVars, saveVars, consoleVars>>

\* isShopifyStorefront returns d: finally clears the timer (whose state is
\* timer), and resolveProductLocator finishes (lines 246-250).
FinishWith(d, log, timer) ==
    /\ fetches' = log
    /\ timeout' = ClearTimeout(timer)
    /\ detected' = IF d THEN "yes" ELSE "no"
    /\ result' = ResolveAfterProbe(trimmed, parsedUrl, d)
    /\ pc' = "done"

Finish(d, log) == FinishWith(d, log, timeout)

\* Mutant of AfterHead: the GET request follows whatever HEAD found.
AfterHeadAlwaysGet(d, log) ==
    /\ fetches' = Append(log, FetchCall("GET", TRUE, now))
    /\ pc' = "get"
    /\ UNCHANGED <<timeout, detected, result>>

\* tryFetch("HEAD") has answered d without the timer firing: return true, or
\* go on to tryFetch("GET") (lines 307-313).
AfterHead(d, log) ==
    IF d THEN Finish(TRUE, log)
    ELSE /\ fetches' = Append(log, FetchCall("GET", TRUE, now))
         /\ pc' = "get"
         /\ UNCHANGED <<timeout, detected, result>>

\* The HEAD request is answered: its headers are inspected, whatever the status.
HeadResponse ==
    /\ pc = "head"
    /\ \E r \in Responses :
          AfterHead(TryFetchResult(r), Settle(fetches, "response", r, now))
    /\ UNCHANGED <<input, rawProductUrl, trimmed, parsedUrl, aborted, now, deadline>>
    /\ UNCHANGED <<appVars, callVars, saveVars, consoleVars>>

\* Mutant of HeadError: tryFetch has no catch block, the failure is thrown on.
HeadErrorUncaught ==
    /\ pc = "head"
    /\ fetches' = Settle(fetches, "error", NoResponse, now)
    /\ timeout' = ClearTimeout(timeout)
    /\ result' = Thrown("fetch failed", 0)
    /\ pc' = "done"
    /\ UNCHANGED <<input, rawProductUrl, trimmed, parsedUrl, aborted, now, deadline, detected>>
    /\ UNCHANGED <<appVars, callVars, saveVars, consoleVars>>

\* The HEAD request fails in transport: the catch block answers for it.
HeadError ==
    /\ pc = "head"
    /\ AfterHead(CatchResult, Settle(fetches, "error", NoResponse, now))
    /\ UNCHANGED <<input, rawProductUrl, trimmed, parsedUrl, aborted, now, deadline>>
    /\ UNCHANGED <<appVars, callVars, saveVars, consoleVars>>

\* The GET request is answered.
GetResponse ==
    /\ pc = "get"
    /\ \E r \in Responses :
          Finish(TryFetchResult(r), Settle(fetches, "response", r, now))
    /\ UNCHANGED <<input, rawProductUrl, trimmed, parsedUrl, aborted, now, deadline>>
    /\ UNCHANGED <<appVars, callVars, saveVars, consoleVars>>

\* The GET request fails in transport.
GetError ==
    /\ pc = "get"
    /\ Finish(CatchResult, Settle(fetches, "error", NoResponse, now))
    /\ UNCHANGED <<input, rawProductUrl, trimmed, parsedUrl, aborted, now, deadline>>
    /\ UNCHANGED <<appVars, callVars, saveVars, consoleVars>>

\* Mutant of DueTime: every request gets a timeout period of its own.
DueTimePerRequest == fetches[Len(fetches)].issuedAt + PROBE_TIMEOUT_MS

\* When the timer set before the HEAD request is due.
DueTime == deadline

\* Mutant of TimerFires: an aborted HEAD request is followed by a GET request
\* that is sent.
TimerFiresRetry ==
    /\ pc \in {"head", "get"}
    /\ timeout = "pending"
    /\ now >= DueTime
    /\ aborted' = TRUE
    /\ LET log == Settle(fetches, "aborted", NoResponse, now)
       IN  IF pc = "head"
           THEN /\ fetches' = Append(log, FetchCall("GET", TRUE, now))
                /\ timeout' = "fired"
                /\ pc' = "get"
                /\ UNCHANGED <<detected, result>>
           ELSE FinishWith(CatchResult, log, "fired")
    /\ UNCHANGED <<input, rawProductUrl, trimmed, parsedUrl, now, deadline>>
    /\ UNCHANGED <<appVars, callVars, saveVars, consoleVars>>

\* The timer is due: controller.abort() rejects the request in flight, which
\* the catch block answers.  An aborted HEAD is followed by tryFetch("GET"),
\* whose fetch rejects at once on the aborted signal, with no request sent.
TimerFires ==
    /\ pc \in {"head", "get"}
    /\ timeout = "pending"
    /\ now >= DueTime
    /\ aborted' = TRUE
    /\ LET log == Settle(fetches, "aborted", NoResponse, now)
       IN  IF pc = "head" /\ ~CatchResult
           THEN FinishWith(CatchResult, Append(log, FetchCall("GET", FALSE, now)), "fired")
           ELSE FinishWith(CatchResult, log, "fired")
    /\ UNCHANGED <<input, rawProductUrl, trimmed, parsedUrl, now, deadline>>
    /\ UNCHANGED <<appVars, callVars, saveVars, consoleVars>>

\* Time passes while a request is in flight, up to the timer's deadline.
Tick ==
    /\ pc \in {"head", "get"}
    /\ now < DueTime
    /\ LET later == now + PROBE_TIMEOUT_MS \div TicksPerTimeout
       IN  now' = IF later > DueTime THEN DueTime ELSE later
    /\ UNCHANGED <<input, rawProductUrl, pc, trimmed, parsedUrl, timeout, aborted,
                   deadline, fetches, detected, result>>
    /\ UNCHANGED <<appVars, callVars, saveVars, consoleVars>>

Next ==
    \/ Resolve
    \/ HeadResponse
    \/ HeadError
    \/ GetResponse
    \/ GetError
    \/ TimerFires
    \/ Tick

Spec == Init /\ [][Next]_vars

(***************************************************************************)
(* What is expected of a call, from the parts its input was typed from.    *)
(***************************************************************************)
Done == pc = "done"

IsUrlInput == input.kind = "url"

\* The typed URL's hostname matches no fast rule.
UnknownDomain ==
    /\ IsUrlInput
    /\ ~input.url.base.amazon
    /\ ~input.url.base.shopify
    /\ ~input.url.base.automation

\* The URL is classified as Shopify: by the myshopify.com rule, or by the probe.
ClassifiedShopify ==
    /\ IsUrlInput
    /\ \/ ~input.url.base.amazon /\ input.url.base.shopify
       \/ UnknownDomain /\ detected = "yes"

\* The typed `variant` parameters, and the others, in their typed order.
VariantParams == SelectSeq(input.url.params, LAMBDA p : p.name = <<"v", "a", "r", "i", "a", "n", "t">>)
OtherParams == SelectSeq(input.url.params, LAMBDA p : p.name # <<"v", "a", "r", "i", "a", "n", "t">>)

\* The typed URL with its `variant` parameters taken out of the query.
InputUrlWithoutVariant == UrlText(input.url.base, OtherParams, input.url.fragment)

\* Origin and path as parsed, then the other parameters as written back.
CanonicalUrlWithoutVariant ==
    input.url.base.canon
    \o (IF OtherParams = <<>> THEN <<>>
        ELSE <<"?">> \o Join([i \in 1..Len(OtherParams) |-> OtherParams[i].out], <<"&">>))

\* What the Shopify builder is expected to answer for the typed URL.
ExpectedShopify ==
    IF VariantParams = <<>> \/ VariantParams[1].value = <<>>
    THEN Thrown(MissingVariantMessage, BAD_REQUEST)
    ELSE Returned(<<"s", "h", "o", "p", "i", "f", "y", ":">> \o CanonicalUrlWithoutVariant
                  \o <<":">> \o VariantParams[1].value)

\* The recognized prefixes s begins with, compared as written.
PrefixesOf(s) ==
    {i \in DOMAIN PRODUCT_LOCATOR_PREFIXES : StartsWith(s, PRODUCT_LOCATOR_PREFIXES[i])}

(***************************************************************************)
(* C1.  Every string resolveProductLocator returns begins with exactly one *)
(* of the prefixes amazon:, shopify:, url:.                                *)
(***************************************************************************)
\* C1 as stated: the returned string begins with exactly one of amazon:,
\* shopify:, url: as written (lower case).  The passthrough of "AMAZON:..."
\* refutes it.
C1_BeginsWithPrefixAsWritten ==
    (Done /\ result.kind = "returned") => Cardinality(PrefixesOf(result.value)) = 1

\* C1 amended: every returned string begins with exactly one of the three
\* prefixes when letter case is ignored; a string that is not a passthrough
\* begins with it in lower case.
C1_BeginsWithPrefixAnyCase ==
    (Done /\ result.kind = "returned") =>
        /\ Cardinality(PrefixesOf(ToLowerCase(result.value))) = 1
        /\ input.kind # "prefixed" => Cardinality(PrefixesOf(result.value)) = 1

\* C1 witness: the fallback after a failed probe has returned a string.
C1_Witness ==
    /\ Done
    /\ UnknownDomain
    /\ detected = "no"
    /\ result.kind = "returned"

(***************************************************************************)
(* C2.  An input that already starts with a recognized prefix, in any      *)
(* letter case, is returned unchanged.                                     *)
(***************************************************************************)
\* C2 as stated: an input starting with a prefix (any letter case) is returned
\* unchanged.  "url:x " (trailing space) refutes it: the code returns "url:x".
C2_PrefixedInputReturnedUnchanged ==
    (Done /\ input.kind = "prefixed" /\ input.lead = <<>>) =>
        result = Returned(rawProductUrl)

\* C2 amended: an input whose trimmed form starts with a prefix (any letter
\* case) is returned trimmed and otherwise unchanged, letter case included;
\* without surrounding white space it is returned unchanged.
C2_PrefixedInputReturnedTrimmed ==
    (Done /\ input.kind = "prefixed") =>
        /\ result = Returned(input.body)
        /\ (input.lead = <<>> /\ input.trail = <<>>) => result = Returned(rawProductUrl)
        /\ fetches = <<>>

\* C2 witness: an upper-case prefixed input with white space after it went through.
C2_Witness ==
    /\ Done
    /\ input.kind = "prefixed"
    /\ input.trail # <<>>
    /\ PrefixesOf(input.body) = {}
    /\ result.kind = "returned"

(***************************************************************************)
(* C3.  The hostname rules are tried in the order Amazon, Shopify CDN,     *)
(* browser automation, and the first match wins.                           *)
(***************************************************************************)
\* C3: a URL whose hostname matches the Amazon rule and a later rule resolves
\* to amazon:<trimmed input>; one that matches the Shopify CDN rule and a
\* browser-automation domain (and not Amazon) gets the Shopify builder's
\* answer.  Neither probes the network.
C3_FirstMatchWins ==
    (Done /\ IsUrlInput) =>
        /\ (input.url.base.amazon /\ (input.url.base.shopify \/ input.url.base.automation))
              => result = Returned(<<"a", "m", "a", "z", "o", "n", ":">> \o input.body) /\ fetches = <<>>
        /\ (~input.url.base.amazon /\ input.url.base.shopify /\ input.url.base.automation)
              => result = ExpectedShopify /\ fetches = <<>>

\* C3 witness: a myshopify.com host under a browser-automation domain was
\* resolved by the Shopify builder.
C3_Witness ==
    /\ Done
    /\ IsUrlInput
    /\ ~input.url.base.amazon
    /\ input.url.base.shopify
    /\ input.url.base.automation
    /\ result.kind = "returned"
    /\ PrefixesOf(result.value) = {2}

C5_MissingVariantRejected ==
    (Done /\ ClassifiedShopify /\ VariantParams = <<>>) =>
        result = Thrown(MissingVariantMessage, BAD_REQUEST)

\* C5 witness: the probe detected Shopify for a URL without a variant, and the
\* call threw.
C5_Witness ==
    /\ Done
    /\ UnknownDomain
    /\ detected = "yes"
    /\ VariantParams = <<>>
    /\ result.kind = "thrown"

(***************************************************************************)
(* C6.  A probe that fails on every request degrades to url:.              *)
(***************************************************************************)
\* Every fetch of the probe ended in a transport error or an abort.
AllRequestsFailed ==
    /\ fetches # <<>>
    /\ \A i \in DOMAIN fetches : fetches[i].outcome \in {"error", "aborted"}

\* C6: for an unrecognized domain whose probe timed out or failed on every
\* request, the call returns url:<trimmed input> and throws nothing.
C6_FailedProbeFallsBack ==
    (Done /\ UnknownDomain /\ AllRequestsFailed) =>
        result = Returned(<<"u", "r", "l", ":">> \o input.body)

\* C6 witness: the HEAD request failed, the GET request timed out, and the
\* call returned.
C6_Witness ==
    /\ Done
    /\ UnknownDomain
    /\ Len(fetches) = 2
    /\ fetches[1].outcome = "error"
    /\ fetches[2].outcome = "aborted"
    /\ fetches[2].sent
    /\ result.kind = "returned"

(***************************************************************************)
(* C7.  A probe response with an x-shopify header.                         *)
(***************************************************************************)
\* Some response of the probe had a header name starting with x-shopify.
VendorHeaderSeen == \E i \in DOMAIN fetches : fetches[i].response.vendor

\* C7 as stated: for an unrecognized domain whose probe response has a header
\* name starting with x-shopify, the call returns a shopify: locator.  A URL
\* without a variant parameter refutes it: the call throws MissingVariant.
C7_VendorHeaderGivesShopifyLocator ==
    (Done /\ UnknownDomain /\ VendorHeaderSeen) =>
        result.kind = "returned" /\ PrefixesOf(result.value) = {2}

\* C7 amended: for such a domain and response the URL is handed to the Shopify
\* builder: the call returns the shopify: locator when the URL's first variant
\* parameter has a non-empty value, and throws MissingVariant otherwise.
C7_VendorHeaderGivesShopifyBuilder ==
    (Done /\ UnknownDomain /\ VendorHeaderSeen) =>
        /\ result = ExpectedShopify
        /\ result.kind = "returned" => PrefixesOf(result.value) = {2}

\* C7 witness: the GET response carried the header, and a shopify: locator
\* was returned.
C7_Witness ==
    /\ Done
    /\ UnknownDomain
    /\ Len(fetches) = 2
    /\ fetches[2].response.vendor
    /\ result.kind = "returned"
    /\ PrefixesOf(result.value) = {2}

(***************************************************************************)
(* C8.  Browser-automation domains resolve to url: without a probe.        *)
(***************************************************************************)
\* C8: a URL whose hostname is a browser-automation domain or a subdomain of
\* one (and matches neither the Amazon nor the Shopify CDN rule) resolves to
\* url:<trimmed input>, and no fetch is ever called for it.
C8_AutomationDomainNoProbe ==
    (IsUrlInput /\ input.url.base.automation
       /\ ~input.url.base.amazon /\ ~input.url.base.shopify) =>
        /\ fetches = <<>>
        /\ timeout = "unset"
        /\ Done => result = Returned(<<"u", "r", "l", ":">> \o input.body)

\* C8 witness: a subdomain (shop.on.com) was resolved.
C8_Witness ==
    /\ Done
    /\ IsUrlInput
    /\ input.url.base.text = <<"h", "t", "t", "p", "s", ":", "/", "/", "s", "h", "o", "p", ".", "o", "n", ".", "c", "o", "m", "/", "p">>
    /\ input.lead # <<>>
    /\ result.kind = "returned"

(***************************************************************************)
(* C9.  Amazon URLs resolve to amazon:<trimmed input>, verbatim.           *)
(***************************************************************************)
\* C9: a URL whose hostname contains "amazon." (in any letter case as typed)
\* resolves to amazon: followed by the trimmed input as typed: nothing is
\* extracted, normalised or rejected.
C9_AmazonVerbatim ==
    (Done /\ IsUrlInput /\ input.url.base.amazon) =>
        result = Returned(<<"a", "m", "a", "z", "o", "n", ":">> \o input.body)

\* C9 witness: an upper-case Amazon URL without an ASIN was resolved.
C9_Witness ==
    /\ Done
    /\ IsUrlInput
    /\ input.url.base.text = <<"h", "t", "t", "p", "s", ":", "/", "/", "W", "W", "W", ".", "A", "m", "a", "z", "o", "n", ".", "C", "O", "M", "/", "d", "p">>
    /\ input.url.params # <<>>
    /\ result.kind = "returned"

(***************************************************************************)
(* C10.  An input whose trimmed form is empty fails with EmptyInput (400). *)
(***************************************************************************)
\* C10: an input of white space only (or of nothing) makes the call throw
\* "Product URL is required" with status 400; nothing was parsed and no
\* request was made.
C10_EmptyInputRejected ==
    (Range(rawProductUrl) \subseteq WhiteSpace) =>
        /\ fetches = <<>>
        /\ parsedUrl = InvalidUrl
        /\ Done => result = Thrown(EmptyInputMessage, BAD_REQUEST)

\* C10 witness: a call on "  " has thrown.
C10_Witness ==
    /\ Done
    /\ Len(rawProductUrl) = 2
    /\ Range(rawProductUrl) \subseteq WhiteSpace
    /\ result.kind = "thrown"


(***************************************************************************)
(* C11.  Text that is no URL fails with MalformedUrl (400), unprobed.      *)
(***************************************************************************)
\* C11: a non-empty input that begins with no recognized prefix and that
\* new URL() cannot parse makes the call throw "Product URL must be a valid
\* URL" with status 400, and no network request is made for it.
C11_MalformedUrlRejected ==
    (input.kind = "text") =>
        /\ fetches = <<>>
        /\ timeout = "unset"
        /\ Done => result = Thrown(MalformedUrlMessage, BAD_REQUEST)

\* C11 witness: a call on a host and path typed without a scheme has thrown.
C11_Witness ==
    /\ Done
    /\ input.kind = "text"
    /\ input.body = <<"w", "w", "w", ".", "n", "i", "k", "e", ".", "c", "o", "m", "/", "t">>
    /\ result.kind = "thrown"

(***************************************************************************)
(* C16.  Only an unknown domain is probed over the network.                *)
(***************************************************************************)
\* C16: a network request is made (and the probe's timer set) only for an
\* input that is non-empty, begins with no recognized prefix, parses as a URL
\* and has a hostname that no fast rule (Amazon, myshopify.com, browser
\* automation) matches; every other input is resolved without network access.
C16_OnlyUnknownDomainProbed ==
    (fetches # <<>> \/ timeout # "unset" \/ pc \in {"head", "get"}) => UnknownDomain

\* C16 witness: the HEAD request for an unknown domain is in flight.
C16_Witness ==
    /\ pc = "head"
    /\ UnknownDomain
    /\ Len(fetches) = 1
    /\ fetches[1].sent
    /\ fetches[1].outcome = "inflight"

(***************************************************************************)
(* C17.  The probe sends HEAD, then GET only if HEAD detected nothing.     *)
(***************************************************************************)
\* The typed answer to fetch call i shows Shopify.
AnswerShowsShopify(i) == fetches[i].response.vendor \/ fetches[i].response.mention

\* C17: the first request of a probe is a HEAD request; a GET request is
\* issued only after the HEAD request has completed without detecting
\* Shopify; the two are never in flight together, and a probe makes at most
\* one of each.
C17_HeadThenGet ==
    /\ Len(fetches) <= 2
    /\ fetches # <<>> => fetches[1].method = "HEAD"
    /\ Cardinality({i \in DOMAIN fetches : fetches[i].outcome = "inflight"}) <= 1
    /\ Len(fetches) = 2 =>
          /\ fetches[2].method = "GET"
          /\ fetches[1].outcome # "inflight"
          /\ ~AnswerShowsShopify(1)
          /\ fetches[2].issuedAt >= fetches[1].settledAt

\* C17 witness: the GET request is in flight after a HEAD request that was
\* answered without any sign of Shopify.
C17_Witness ==
    /\ pc = "get"
    /\ Len(fetches) = 2
    /\ fetches[1].outcome = "response"
    /\ fetches[2].outcome = "inflight"

(***************************************************************************)
(* C18.  One timer covers the whole probe.                                 *)
(***************************************************************************)
\* The fetch calls that put a request on the network.
SentCalls == {i \in DOMAIN fetches : fetches[i].sent}

\* C18: the timer set before the HEAD request covers the whole probe.  When
\* it fires, the request in flight is abandoned, one timeout period after the
\* probe began; the probe answers false (the input resolves to url:<trimmed
\* input>), and no request is sent after that.
C18_TimeoutEndsProbe ==
    (timeout = "fired") =>
        /\ Done
        /\ aborted
        /\ detected = "no"
        /\ result = Returned(<<"u", "r", "l", ":">> \o input.body)
        /\ \E i \in SentCalls :
              /\ fetches[i].outcome = "aborted"
              /\ fetches[i].settledAt = fetches[1].issuedAt + PROBE_TIMEOUT_MS
              /\ \A j \in DOMAIN fetches : j > i => ~fetches[j].sent
              /\ \A j \in SentCalls : j # i => fetches[j].outcome # "aborted"

\* C18 witness: the timer fired during the HEAD request; the GET request that
\* followed was not sent.
C18_Witness ==
    /\ timeout = "fired"
    /\ Len(fetches) = 2
    /\ fetches[1].outcome = "aborted"
    /\ ~fetches[2].sent

(***************************************************************************)
(* C19.  Whether each probe request has a timeout of its own.              *)
(***************************************************************************)
\* C19 as stated: each request of the probe is bounded by an independent
\* timeout, so a request abandoned by the timeout was in flight for a whole
\* timeout period, the GET request included.  A GET request issued half a
\* period after the HEAD request and abandoned half a period later refutes it.
C19_EachRequestOwnTimeout ==
    \A i \in SentCalls :
        fetches[i].outcome = "aborted" =>
            fetches[i].settledAt - fetches[i].issuedAt = PROBE_TIMEOUT_MS

\* C19 amended: both requests are bounded by the one timer set before the
\* HEAD request.  A request is abandoned one timeout period after the probe
\* began, however late it was issued, and every request is settled within one
\* timeout period of the probe's start: the worst case is one period, not two.
C19_OneTimeoutForBoth ==
    /\ \A i \in SentCalls :
          fetches[i].outcome = "aborted" =>
              fetches[i].settledAt - fetches[1].issuedAt = PROBE_TIMEOUT_MS
    /\ \A i \in DOMAIN fetches :
          fetches[i].settledAt - fetches[1].issuedAt <= PROBE_TIMEOUT_MS
    /\ fetches # <<>> => now - fetches[1].issuedAt <= PROBE_TIMEOUT_MS

\* C19 witness: a GET request issued after the probe began was abandoned by
\* the timer.
C19_Witness ==
    /\ Len(fetches) = 2
    /\ fetches[2].sent
    /\ fetches[2].outcome = "aborted"
    /\ fetches[2].issuedAt > fetches[1].issuedAt

(***************************************************************************)
(* C20.  The probe never throws and always answers.                        *)
(***************************************************************************)
\* Steps left to a call: a bound on how many more steps it can take.
ProbeMeasure ==
    CASE pc = "start" -> 3 * (PROBE_TIMEOUT_MS + 1)
      [] pc = "head"  -> 2 * (PROBE_TIMEOUT_MS + 1) + (DueTime - now)
      [] pc = "get"   -> (PROBE_TIMEOUT_MS + 1) + (DueTime - now)
      [] OTHER        -> 0

\* Once a probe is over it has answered true or false, and a failed step
\* counted as "not detected" for that step alone: the answer is true exactly
\* when some answered request showed Shopify.  The only error of a probed
\* call is the missing variant of a detected storefront.
ProbeAnswered ==
    (Done /\ fetches # <<>>) =>
        /\ detected \in {"yes", "no"}
        /\ detected = "yes" <=> \E i \in DOMAIN fetches : AnswerShowsShopify(i)
        /\ result.kind \in {"returned", "thrown"}
        /\ result.kind = "thrown" =>
              /\ detected = "yes"
              /\ result = Thrown(MissingVariantMessage, BAD_REQUEST)

\* While a request is in flight the timer is pending and not overdue, so a
\* site that never answers cannot hold the call: time can pass, or the timer
\* fires.
TimerGuardsRequest ==
    pc \in {"head", "get"} =>
        /\ timeout = "pending"
        /\ now <= DueTime
        /\ fetches[Len(fetches)].outcome = "inflight"

\* C20: isShopifyStorefront never throws and always terminates with a
\* boolean: every step of a call brings it nearer its end (ProbeMeasure
\* falls and is never negative), a request in flight is always bounded by the
\* pending timer, and a probe that is over has answered as ProbeAnswered
\* says, whatever failed on the way.
C20_ProbeNeverThrows ==
    /\ [][ProbeMeasure' < ProbeMeasure]_vars
    /\ [](ProbeMeasure >= 0)
    /\ []TimerGuardsRequest
    /\ []ProbeAnswered

\* C20 witness: the HEAD request failed in transport and the GET request
\* that followed showed Shopify: the probe answered true.
C20_Witness ==
    /\ Done
    /\ Len(fetches) = 2
    /\ fetches[1].outcome = "error"
    /\ AnswerShowsShopify(2)
    /\ detected = "yes"

(***************************************************************************)
(* The HTTP application: POST /orders/solana and GET /orders/:orderId.     *)
(***************************************************************************)
\* z.string().url(): the string parses as a URL.
UrlSchemaAccepts(s) == ParseURL(Trim(s)).ok

\* Mutant of SchemaAccepts: productUrl is not checked.
SchemaAcceptsAnyProductUrl(body) == body.fieldsOk

\* solanaCreateOrderSchema.safeParse(body).success
SchemaAccepts(body) == body.fieldsOk /\ UrlSchemaAccepts(body.productUrl)

\* getOrderStatusParamsSchema.safeParse({ orderId }).success
ParamsSchemaAccepts(orderId) == orderId \in Uuids

\* getOrderStatusHeadersSchema.safeParse({ authorization }).success
HeadersSchemaAccepts(authorization) == authorization.present

\* Mutant of BcryptCompare: any stored hash matches.
BcryptCompareAny(data, hash) == hash.alg = "bcrypt"

\* bcrypt.compare(data, hash)
BcryptCompare(data, hash) == hash.alg = "bcrypt" /\ hash.data = data

\* An error that is no CrossmintOrderError.
OtherError == [kind |-> "error", value |-> <<>>, status |-> 0, message |-> "fetch failed"]

\* Mutant of CatchCreateError: every failure is reported as a bad gateway.
CatchCreateErrorAsBadGateway(error) ==
    ErrorResponse(BAD_GATEWAY, "Failed to create Crossmint order")

\* The catch block of the create-order handler.
CatchCreateError(error) ==
    IF error.kind = "thrown"
    THEN ErrorResponse(error.status, error.message)
    ELSE ErrorResponse(BAD_GATEWAY, "Failed to create Crossmint order")

\* What isShopifyStorefront may answer for a parsed URL.
ProbeAnswers(url) ==
    IF IsShopifyHost(ToLowerCase(url.hostname)) THEN {TRUE} ELSE BOOLEAN

\* What resolveProductLocator may return or throw for an argument, over the
\* answers of the probe.
ResolveOutcomes(raw) ==
    LET fast == ResolveFast(raw)
        t == TrimInput(raw)
        url == ParseURL(t)
    IN  IF fast.kind # "pending" THEN {fast}
        ELSE {ResolveAfterProbe(t, url, d) : d \in ProbeAnswers(url)}

\* How many requests arrive in a run.
MaxRequests == 2

Secrets == {"secret-a", "secret-b"}
Salts == {"salt-1", "salt-2"}

\* Product URLs a body may carry, with what is expected of each.
ProductUrlCases ==
    { <<<<>>, "empty">>,
      <<<<" ", " ">>, "empty">>,
      <<<<"n", "o", "t", " ", "a", " ", "u", "r", "l">>, "malformed">>,
      <<<<"h", "t", "t", "p", "s", ":", "/", "/", "s", "h", "o", "p", ".", "m", "y", "s", "h", "o", "p", "i", "f", "y", ".", "c", "o", "m", "/", "p", "r", "o", "d", "u", "c", "t", "s", "/", "w", "i", "d", "g", "e", "t">>, "missingVariant">>,
      <<<<"h", "t", "t", "p", "s", ":", "/", "/", "s", "h", "o", "p", ".", "m", "y", "s", "h", "o", "p", "i", "f", "y", ".", "c", "o", "m", "/", "p", "r", "o", "d", "u", "c", "t", "s", "/", "w", "i", "d", "g", "e", "t", "?", "v", "a", "r", "i", "a", "n", "t", "=", "1", "2", "3">>, "resolves">>,
      <<<<" ", "h", "t", "t", "p", "s", ":", "/", "/", "w", "w", "w", ".", "a", "m", "a", "z", "o", "n", ".", "c", "o", "m", "/", "d", "p", "/", "B", "0", "8", "N", "5", "W", "R", "W", "N", "W", " ">>, "resolves">>,
      <<<<"a", "m", "a", "z", "o", "n", ":", "B", "0", "8", "N", "5", "W", "R", "W", "N", "W">>, "resolves">>,
      <<<<"h", "t", "t", "p", "s", ":", "/", "/", "s", "t", "o", "r", "e", ".", "e", "x", "a", "m", "p", "l", "e", ".", "c", "o", "m", "/", "p">>, "missingVariantIfShopify">>,
      <<<<"h", "t", "t", "p", "s", ":", "/", "/", "s", "t", "o", "r", "e", ".", "e", "x", "a", "m", "p", "l", "e", ".", "c", "o", "m", "/", "p", "?", "v", "a", "r", "i", "a", "n", "t", "=", "1">>, "resolves">> }

CreateRequests ==
    {Request("POST", "/orders/solana", Body(TRUE, TRUE, u[1]), u[2], p, "", NoHeader) :
        u \in ProductUrlCases, p \in {"none", "invalid", "valid"}}
    \cup {Request("POST", "/orders/solana", b, "invalidBody", p, "", NoHeader) :
            b \in {Body(FALSE, FALSE, <<>>),
                   Body(TRUE, FALSE, <<"h", "t", "t", "p", "s", ":", "/", "/", "w", "w", "w", ".", "a", "m", "a", "z", "o", "n", ".", "c", "o", "m", "/", "d", "p", "/", "B", "0", "8", "N", "5", "W", "R", "W", "N", "W">>)},
            p \in {"none", "valid"}}

StatusRequests ==
    {Request("GET", "/orders/:orderId", NoBody, "", "none", id, a) :
        id \in Uuids \cup {NotUuid},
        a \in {NoHeader} \cup {Header(s) : s \in Secrets \cup {"wrong-secret"}}}

Requests == CreateRequests \cup StatusRequests

\* What the provider may answer to an order creation.
CreateOutcomes ==
    {[kind |-> "created", orderId |-> id, clientSecret |-> s, status |-> CREATED] :
        id \in Uuids, s \in Secrets}
    \cup {[kind |-> "rejected", orderId |-> "", clientSecret |-> "", status |-> st] :
            st \in {BAD_REQUEST, INTERNAL_SERVER_ERROR}}
    \cup {[kind |-> k, orderId |-> "", clientSecret |-> "", status |-> 0] :
            k \in {"malformed", "unreachable"}}

\* What the provider may answer to an order lookup: a status, or no answer.
GetOutcomes == {OK, FORBIDDEN, NOT_FOUND, INTERNAL_SERVER_ERROR, 0}

InitApp ==
    /\ ResolverIdle
    /\ CallsIdle
    /\ SaveIdle
    /\ ConsoleIdle
    /\ AppIdle

\* A request arrives once the one before it is answered.
Receive ==
    /\ stage \in {"idle", "responded"}
    /\ served < MaxRequests
    /\ \E r \in Requests :
          /\ request' = r
          /\ stage' = IF r.method = "POST" THEN "validation" ELSE "status"
    /\ trace' = <<>>
    /\ reply' = NoHttpResponse
    /\ validatedBody' = NoBody
    /\ locator' = Pending
    /\ providerCalls' = <<>>
    /\ transactions' = <<>>
    /\ served' = served + 1
    /\ UNCHANGED <<orders, users, issued, resolverVars, callVars, saveVars, consoleVars>>

\* createValidationMiddleware(solanaCreateOrderSchema) on a POST.
ValidationMiddleware ==
    /\ stage = "validation"
    /\ trace' = Append(trace, "createValidationMiddleware")
    /\ IF ~request.body.wellFormed
       THEN /\ reply' = ErrorResponse(BAD_REQUEST, "Invalid JSON payload")
            /\ stage' = "responded"
            /\ UNCHANGED validatedBody
       ELSE IF ~SchemaAccepts(request.body)
       THEN /\ reply' = ErrorResponse(BAD_REQUEST, "Invalid request body")
            /\ stage' = "responded"
            /\ UNCHANGED validatedBody
       ELSE /\ validatedBody' = request.body
            /\ stage' = "payerLogging"
            /\ UNCHANGED reply
    /\ UNCHANGED <<request, locator, orders, users, issued, providerCalls,
                   transactions, served,
                   resolverVars, callVars, saveVars, consoleVars>>

\* createPayerLoggingMiddleware("solana"): logs, then next().
PayerLoggingMiddleware ==
    /\ stage = "payerLogging"
    /\ trace' = Append(trace, "createPayerLoggingMiddleware")
    /\ stage' = "paymentDebug"
    /\ UNCHANGED <<request, reply, validatedBody, locator, orders, users, issued,
                   providerCalls, transactions, served, resolverVars, callVars, saveVars, consoleVars>>

\* createPaymentDebugMiddleware(): logs, then next().
PaymentDebugMiddleware ==
    /\ stage = "paymentDebug"
    /\ trace' = Append(trace, "createPaymentDebugMiddleware")
    /\ stage' = "payment"
    /\ UNCHANGED <<request, reply, validatedBody, locator, orders, users, issued,
                   providerCalls, transactions, served, resolverVars, callVars, saveVars, consoleVars>>

\* paymentMiddleware(...) of x402-hono before next(): a request without a
\* payment that verifies is answered 402.
PaymentMiddleware ==
    /\ stage = "payment"
    /\ trace' = Append(trace, "paymentMiddleware")
    /\ IF request.payment = "valid"
       THEN /\ stage' = "handler"
            /\ UNCHANGED reply
       ELSE /\ reply' = ErrorResponse(PAYMENT_REQUIRED,
                            IF request.payment = "none"
                            THEN "X-PAYMENT header is required"
                            ELSE "Invalid payment")
            /\ stage' = "responded"
    /\ UNCHANGED <<request, validatedBody, locator, orders, users, issued,
                   providerCalls, transactions, served, resolverVars, callVars, saveVars, consoleVars>>

\* The network the route is configured with (paymentMethod).
Network == "solana"

\* Mutant of SaveOrderRecord: the handler answers 201 whether or not the
\* record was saved.
SaveOrderRecordUnchecked(created, payload) ==
    /\ transactions' = Append(transactions,
                           [orderId |-> created.orderId, outcome |-> "rolledBack"])
    /\ reply' = HttpResponse(CREATED, "", created.orderId, created.clientSecret)
    /\ UNCHANGED <<orders, users, issued>>

\* saveOrderRecord for a created order, and the handler's answer: the
\* transaction commits both upserts, or fails and leaves the tables alone.
SaveOrderRecord(created, payload) ==
    \E saved \in BOOLEAN, salt \in Salts, id \in UserIds :
        /\ \A u \in users : u.id # id
        /\ transactions' = Append(transactions,
                               [orderId |-> created.orderId,
                                outcome |-> IF saved THEN "committed" ELSE "rolledBack"])
        /\ IF saved
           THEN LET written == UpsertUser(users, id, payload.payerAddress, Network,
                                          payload.email)
                    userId == ReturnedUserId(written, payload.payerAddress, Network)
                IN  /\ users' = written
                    /\ orders' = UpsertOrder(orders, created.orderId, userId, Network,
                                     BcryptHash(HashClientSecret(created.clientSecret),
                                                SALT_ROUNDS, salt))
                    /\ issued' = [issued EXCEPT ![created.orderId] =
                                     Append(@, created.clientSecret)]
                    /\ reply' = HttpResponse(CREATED, "", created.orderId,
                                             created.clientSecret)
           ELSE /\ reply' = ErrorResponse(INTERNAL_SERVER_ERROR,
                                          "Failed to persist order record")
                /\ UNCHANGED <<orders, users, issued>>

\* createCrossmintOrder after the locator is resolved, and the handler's
\* answer to what it returns or throws.
CreateCrossmintOrder(payload) ==
    /\ providerCalls' = Append(providerCalls, "createOrder")
    /\ \E o \in CreateOutcomes :
          IF o.kind = "created" THEN SaveOrderRecord(o, payload)
          ELSE /\ reply' = CatchCreateError(
                      IF o.kind = "rejected"
                      THEN Thrown("Crossmint order creation failed", o.status)
                      ELSE IF o.kind = "malformed"
                      THEN Thrown("Unexpected Crossmint response shape", BAD_GATEWAY)
                      ELSE OtherError)
               /\ UNCHANGED <<orders, users, issued, transactions>>

\* Mutant of AfterResolve: the order is requested whatever the resolver did.
AfterResolveAlwaysOrder(l, payload) == CreateCrossmintOrder(payload)

\* createCrossmintOrder once resolveProductLocator has returned or thrown l:
\* a throw leaves the function before its fetch, and reaches the handler's
\* catch block.
AfterResolve(l, payload) ==
    IF l.kind = "thrown"
    THEN /\ reply' = CatchCreateError(l)
         /\ UNCHANGED <<orders, users, issued, providerCalls, transactions>>
    ELSE CreateCrossmintOrder(payload)

\* The handler built by buildCreateOrderHandler.
CreateOrderHandler ==
    /\ stage = "handler"
    /\ trace' = Append(trace, "createOrderHandler")
    /\ stage' = "settle"
    /\ IF validatedBody = NoBody /\ ~request.body.wellFormed
       THEN /\ reply' = ErrorResponse(BAD_REQUEST, "Invalid JSON payload")
            /\ UNCHANGED <<locator, orders, users, issued, providerCalls, transactions>>
       ELSE IF validatedBody = NoBody /\ ~SchemaAccepts(request.body)
       THEN /\ reply' = ErrorResponse(BAD_REQUEST, "Invalid request body")
            /\ UNCHANGED <<locator, orders, users, issued, providerCalls, transactions>>
       ELSE LET payload == IF validatedBody = NoBody THEN request.body ELSE validatedBody
            IN  \E l \in ResolveOutcomes(payload.productUrl) :
                   /\ locator' = l
                   /\ AfterResolve(l, payload)
    /\ UNCHANGED <<request, validatedBody, served, resolverVars, callVars, saveVars, consoleVars>>

\* paymentMiddleware(...) after next(): an error response is passed on; a
\* success is passed on once the payment is settled, and replaced by 402
\* when the settlement fails.
PaymentSettle ==
    /\ stage = "settle"
    /\ stage' = "responded"
    /\ IF reply.status >= BAD_REQUEST
       THEN UNCHANGED reply
       ELSE \E settled \in BOOLEAN :
               reply' = IF settled THEN reply
                        ELSE ErrorResponse(PAYMENT_REQUIRED, "Settlement failed")
    /\ UNCHANGED <<request, trace, validatedBody, locator, orders, users, issued,
                   providerCalls, transactions, served, resolverVars, callVars, saveVars, consoleVars>>

\* Mutant of StatusCheck: the secret is compared before the row is looked for.
StatusCheckSecretFirst(orderId, authorization, row) ==
    IF ~ParamsSchemaAccepts(orderId)
    THEN ErrorResponse(BAD_REQUEST, "Invalid order ID format")
    ELSE IF ~HeadersSchemaAccepts(authorization)
    THEN ErrorResponse(UNAUTHORIZED, "Authorization header is required")
    ELSE IF ~BcryptCompare(HashClientSecret(authorization.value), row.clientSecret)
    THEN ErrorResponse(FORBIDDEN, "Invalid client secret or access denied")
    ELSE IF ~row.found
    THEN ErrorResponse(NOT_FOUND, "Order not found")
    ELSE NoHttpResponse

\* The local checks of getOrderStatusHandler, in their order: the response
\* of the first that fails, or none.
StatusCheck(orderId, authorization, row) ==
    IF ~ParamsSchemaAccepts(orderId)
    THEN ErrorResponse(BAD_REQUEST, "Invalid order ID format")
    ELSE IF ~HeadersSchemaAccepts(authorization)
    THEN ErrorResponse(UNAUTHORIZED, "Authorization header is required")
    ELSE IF ~row.found
    THEN ErrorResponse(NOT_FOUND, "Order not found")
    ELSE IF ~BcryptCompare(HashClientSecret(authorization.value), row.clientSecret)
    THEN ErrorResponse(FORBIDDEN, "Invalid client secret or access denied")
    ELSE NoHttpResponse

\* The handler's answer to what getCrossmintOrder returned or threw.
StatusReply(orderId, outcome) ==
    IF outcome = OK THEN HttpResponse(OK, "", orderId, "")
    ELSE IF outcome = NOT_FOUND THEN HttpResponse(NOT_FOUND, "Order not found", orderId, "")
    ELSE IF outcome = FORBIDDEN
    THEN ErrorResponse(FORBIDDEN, "Invalid client secret or access denied")
    ELSE IF outcome # 0 THEN ErrorResponse(outcome, "Failed to fetch order status")
    ELSE ErrorResponse(INTERNAL_SERVER_ERROR, "Failed to fetch order status")

\* getOrderStatusHandler.
GetOrderStatusHandler ==
    /\ stage = "status"
    /\ trace' = Append(trace, "getOrderStatusHandler")
    /\ stage' = "responded"
    /\ LET row == SelectOrder(orders, request.orderId)
           failed == StatusCheck(request.orderId, request.authorization, row)
       IN  IF failed # NoHttpResponse
           THEN /\ reply' = failed
                /\ UNCHANGED providerCalls
           ELSE /\ providerCalls' = Append(providerCalls, "getOrder")
                /\ \E o \in GetOutcomes : reply' = StatusReply(request.orderId, o)
    /\ UNCHANGED <<request, validatedBody, locator, orders, users, issued,
                   transactions, served,
                   resolverVars, callVars, saveVars, consoleVars>>

NextApp ==
    \/ Receive
    \/ ValidationMiddleware
    \/ PayerLoggingMiddleware
    \/ PaymentDebugMiddleware
    \/ PaymentMiddleware
    \/ CreateOrderHandler
    \/ PaymentSettle
    \/ GetOrderStatusHandler

SpecApp == InitApp /\ [][NextApp]_vars

(***************************************************************************)
(* What is expected of a request, from what it was typed from.             *)
(***************************************************************************)
\* The named middleware or handler was invoked for the request.
Invoked(name) == \E i \in DOMAIN trace : trace[i] = name

\* The request has been answered.
Responded == stage = "responded"

\* The message expected for a product URL that is expected to fail.
ExpectedMessage(expect) ==
    CASE expect = "empty" -> EmptyInputMessage
      [] expect = "malformed" -> MalformedUrlMessage
      [] OTHER -> MissingVariantMessage

FailingExpectations == {"empty", "malformed", "missingVariant"}

(***************************************************************************)
(* C12.  A resolver failure in the create-order handler is answered 400.   *)
(***************************************************************************)
\* C12: when resolveProductLocator fails inside the create-order handler,
\* the HTTP response (as the handler writes it and as it leaves the payment
\* middleware) is 400 with the message of the validation step that failed:
\* one of three different messages for empty input, malformed URL and missing
\* Shopify variant; it is never a 5xx.  The handler's answer to each of the
\* three failures is checked on the resolver's own result for inputs of each
\* kind, and every request that reaches the handler is checked in place.
C12_ResolverFailureIs400 ==
    /\ Cardinality({ExpectedMessage(e) : e \in FailingExpectations}) = 3
    /\ \A u \in ProductUrlCases :
          u[2] \in FailingExpectations =>
              \A l \in ResolveOutcomes(u[1]) :
                  /\ l.kind = "thrown"
                  /\ CatchCreateError(l) = ErrorResponse(BAD_REQUEST, ExpectedMessage(u[2]))
    /\ (/\ Invoked("createOrderHandler")
        /\ locator.kind = "thrown" \/ request.expect \in FailingExpectations) =>
          /\ locator = Thrown(ExpectedMessage(request.expect), BAD_REQUEST)
          /\ reply = ErrorResponse(BAD_REQUEST, ExpectedMessage(request.expect))
          /\ reply.status < INTERNAL_SERVER_ERROR

\* C12 witness: a paid request for an unknown storefront that the probe
\* found to be Shopify, without a variant, was answered 400.
C12_Witness ==
    /\ Responded
    /\ Invoked("createOrderHandler")
    /\ request.expect = "missingVariantIfShopify"
    /\ locator.kind = "thrown"
    /\ reply.status = BAD_REQUEST
    /\ reply.error = MissingVariantMessage

C15_EveryPostReachesPayment ==
    /\ Invoked("createOrderHandler") =>
          /\ Invoked("paymentMiddleware")
          /\ request.payment = "valid"
    /\ (Responded /\ request.method = "POST") => Invoked("paymentMiddleware")

(***************************************************************************)
(* Several calls of resolveProductLocator interleaved in one process: each *)
(* await is a point where another call may run.                            *)
(***************************************************************************)
\* Mutant of ControllerOf: one AbortController is shared by every call.
SharedController(c) == 1

\* const controller = new AbortController(): the controller of call c is its own.
ControllerOf(c) == c

\* The arguments of the interleaved calls: an unknown domain with and without
\* a variant, an Amazon URL, a myshopify.com URL without a variant, white
\* space, and text that is no URL.
CallInputs ==
    {i \in Inputs :
        /\ i.lead = <<>>
        /\ i.trail = <<>>
        /\ \/ /\ i.kind = "url"
              /\ i.url.fragment = <<>>
              /\ \/ /\ i.url.base.text = <<"h", "t", "t", "p", "s", ":", "/", "/", "S", "t", "o", "r", "e", ".", "E", "x", "a", "m", "p", "l", "e", ".", "c", "o", "m">>
                    /\ Len(i.url.params) <= 1
                    /\ \A k \in DOMAIN i.url.params :
                          i.url.params[k].text = <<"v", "a", "r", "i", "a", "n", "t", "=", "1", "2", "3">>
                 \/ /\ i.url.base.text \in {<<"h", "t", "t", "p", "s", ":", "/", "/", "w", "w", "w", ".", "a", "m", "a", "z", "o", "n", ".", "c", "o", "m", "/", "d", "p", "/", "B", "0", "8", "N", "5", "W", "R", "W", "N", "W">>,
                                           <<"h", "t", "t", "p", "s", ":", "/", "/", "s", "h", "o", "p", ".", "m", "y", "s", "h", "o", "p", "i", "f", "y", ".", "c", "o", "m", "/", "p", "r", "o", "d", "u", "c", "t", "s", "/", "w", "i", "d", "g", "e", "t">>}
                    /\ i.url.params = <<>>
           \/ i.kind = "text" /\ i.body = <<"n", "o", "t", " ", "a", " ", "u", "r", "l">>}
    \cup {i \in Inputs : i.kind = "empty" /\ i.lead = <<" ">> /\ i.trail = <<>>}

\* The answers of a probed site to the interleaved calls.
CallResponses == {r \in Responses : r.status = NOT_FOUND}

\* A call may start up to this long after the process did.
LastStart == PROBE_TIMEOUT_MS

\* resolveProductLocator up to its return or throw, or to the await of the
\* HEAD request, with the controller ctl, at time at.
CallStarted(call, ctl, at) ==
    LET t == TrimInput(call.rawProductUrl)
        fast == ResolveFast(call.rawProductUrl)
        url == ParseURL(t)
    IN  IF fast.kind # "pending"
        THEN [call EXCEPT !.trimmed = t, !.result = fast, !.pc = "done",
                          !.parsedUrl = IF t = <<>> \/ HasLocatorPrefix(t)
                                        THEN InvalidUrl ELSE url]
        ELSE IF IsShopifyHost(ToLowerCase(url.hostname))
        THEN [call EXCEPT !.trimmed = t, !.parsedUrl = url, !.detected = "yes",
                          !.result = ResolveAfterProbe(t, url, TRUE), !.pc = "done"]
        ELSE [call EXCEPT !.trimmed = t, !.parsedUrl = url, !.timeout = "pending",
                          !.controller = ctl, !.startedAt = at,
                          !.deadline = at + PROBE_TIMEOUT_MS,
                          !.fetches = <<FetchCall("HEAD", ~controllers[ctl], at)>>,
                          !.pc = "head"]

\* isShopifyStorefront returns d to the call, whose timer is cleared.
CallFinished(call, d, log) ==
    [call EXCEPT !.fetches = log, !.timeout = ClearTimeout(@),
                 !.detected = IF d THEN "yes" ELSE "no",
                 !.result = ResolveAfterProbe(call.trimmed, call.parsedUrl, d),
                 !.pc = "done"]

\* tryFetch("HEAD") has answered d to the call.
CallAfterHead(call, d, log, at) ==
    IF d THEN CallFinished(call, TRUE, log)
    ELSE [call EXCEPT !.fetches = Append(log, FetchCall("GET", TRUE, at)), !.pc = "get"]

\* The signal of the call's request is aborted: the request rejects into the
\* catch block; after HEAD, tryFetch("GET") rejects without sending.
CallRejected(call, at) ==
    LET log == Settle(call.fetches, "aborted", NoResponse, at)
    IN  CallFinished(call, CatchResult,
                     IF call.pc = "head" /\ ~CatchResult
                     THEN Append(log, FetchCall("GET", FALSE, at))
                     ELSE log)

InitCalls ==
    /\ ResolverIdle
    /\ AppIdle
    /\ SaveIdle
    /\ ConsoleIdle
    /\ calls \in [CallIds -> {NewCall(i) : i \in CallInputs}]
    /\ controllers = [c \in CallIds |-> FALSE]
    /\ clock = 0
    /\ hostnames = PLATFORM_HOSTNAMES

\* The signal the call's requests carry is aborted.
SignalAborted(c) == calls[c].controller \in CallIds /\ controllers[calls[c].controller]

StartCall(c) ==
    /\ calls[c].pc = "start"
    /\ clock <= LastStart
    /\ calls' = [calls EXCEPT ![c] = CallStarted(@, ControllerOf(c), clock)]
    /\ UNCHANGED <<controllers, clock, hostnames, resolverVars, appVars, saveVars, consoleVars>>

CallHeadResponse(c) ==
    /\ calls[c].pc = "head"
    /\ ~SignalAborted(c)
    /\ \E r \in CallResponses :
          calls' = [calls EXCEPT ![c] =
                      CallAfterHead(@, TryFetchResult(r),
                                    Settle(@.fetches, "response", r, clock), clock)]
    /\ UNCHANGED <<controllers, clock, hostnames, resolverVars, appVars, saveVars, consoleVars>>

CallHeadError(c) ==
    /\ calls[c].pc = "head"
    /\ ~SignalAborted(c)
    /\ calls' = [calls EXCEPT ![c] =
                    CallAfterHead(@, CatchResult,
                                  Settle(@.fetches, "error", NoResponse, clock), clock)]
    /\ UNCHANGED <<controllers, clock, hostnames, resolverVars, appVars, saveVars, consoleVars>>

CallGetResponse(c) ==
    /\ calls[c].pc = "get"
    /\ ~SignalAborted(c)
    /\ \E r \in CallResponses :
          calls' = [calls EXCEPT ![c] =
                      CallFinished(@, TryFetchResult(r),
                                   Settle(@.fetches, "response", r, clock))]
    /\ UNCHANGED <<controllers, clock, hostnames, resolverVars, appVars, saveVars, consoleVars>>

CallGetError(c) ==
    /\ calls[c].pc = "get"
    /\ ~SignalAborted(c)
    /\ calls' = [calls EXCEPT ![c] =
                    CallFinished(@, CatchResult,
                                 Settle(@.fetches, "error", NoResponse, clock))]
    /\ UNCHANGED <<controllers, clock, hostnames, resolverVars, appVars, saveVars, consoleVars>>

\* The call's timer is due: its callback aborts the call's controller.
CallTimerFires(c) ==
    /\ calls[c].timeout = "pending"
    /\ clock >= calls[c].deadline
    /\ controllers' = [controllers EXCEPT ![calls[c].controller] = TRUE]
    /\ calls' = [calls EXCEPT ![c].timeout = "fired"]
    /\ UNCHANGED <<clock, hostnames, resolverVars, appVars, saveVars, consoleVars>>

\* The request of a call whose signal is aborted rejects.
CallAborted(c) ==
    /\ calls[c].pc \in {"head", "get"}
    /\ SignalAborted(c)
    /\ calls' = [calls EXCEPT ![c] = CallRejected(@, clock)]
    /\ UNCHANGED <<controllers, clock, hostnames, resolverVars, appVars, saveVars, consoleVars>>

\* The deadlines of the pending timers.
PendingDeadlines == {calls[c].deadline : c \in {d \in CallIds : calls[d].timeout = "pending"}}

\* Time passes, never beyond a pending timer's deadline; an aborted request
\* rejects before any time has passed.
CallTick ==
    /\ \A t \in PendingDeadlines : clock < t
    /\ \A c \in CallIds : calls[c].pc \in {"head", "get"} => ~SignalAborted(c)
    /\ \/ \E c \in CallIds : calls[c].pc \in {"head", "get"}
       \/ \E c \in CallIds : calls[c].pc = "start" /\ clock < LastStart
    /\ LET later == clock + PROBE_TIMEOUT_MS \div TicksPerTimeout
       IN  clock' = IF \E t \in PendingDeadlines : t < later
                    THEN CHOOSE t \in PendingDeadlines : \A u \in PendingDeadlines : t <= u
                    ELSE later
    /\ UNCHANGED <<calls, controllers, hostnames, resolverVars, appVars, saveVars, consoleVars>>

NextCalls ==
    \/ \E c \in CallIds : StartCall(c)
    \/ \E c \in CallIds : CallHeadResponse(c)
    \/ \E c \in CallIds : CallHeadError(c)
    \/ \E c \in CallIds : CallGetResponse(c)
    \/ \E c \in CallIds : CallGetError(c)
    \/ \E c \in CallIds : CallTimerFires(c)
    \/ \E c \in CallIds : CallAborted(c)
    \/ CallTick

SpecCalls == InitCalls /\ [][NextCalls]_vars

(***************************************************************************)
(* C13.  Concurrent calls share no mutable state.                          *)
(***************************************************************************)
\* The typed answers to the call's own requests show Shopify.
OwnAnswersShowShopify(c) ==
    \E k \in DOMAIN calls[c].fetches :
        calls[c].fetches[k].response.vendor \/ calls[c].fetches[k].response.mention

\* What the Shopify builder is expected to answer for a typed URL.
ExpectedShopifyOf(i) ==
    LET variants == SelectSeq(i.url.params, LAMBDA p : p.name = <<"v", "a", "r", "i", "a", "n", "t">>)
        others == SelectSeq(i.url.params, LAMBDA p : p.name # <<"v", "a", "r", "i", "a", "n", "t">>)
    IN  IF variants = <<>> \/ variants[1].value = <<>>
        THEN Thrown(MissingVariantMessage, BAD_REQUEST)
        ELSE Returned(<<"s", "h", "o", "p", "i", "f", "y", ":">> \o i.url.base.canon
                      \o (IF others = <<>> THEN <<>>
                          ELSE <<"?">> \o Join([k \in 1..Len(others) |-> others[k].out], <<"&">>))
                      \o <<":">> \o variants[1].value)

\* What the call returns when it runs alone and the site answers its
\* requests as it answered them here.
ExpectedAlone(c) ==
    LET i == calls[c].input
    IN  IF i.kind = "empty" THEN Thrown(EmptyInputMessage, BAD_REQUEST)
        ELSE IF i.kind = "text" THEN Thrown(MalformedUrlMessage, BAD_REQUEST)
        ELSE IF i.url.base.amazon THEN Returned(<<"a", "m", "a", "z", "o", "n", ":">> \o i.body)
        ELSE IF i.url.base.shopify \/ OwnAnswersShowShopify(c) THEN ExpectedShopifyOf(i)
        ELSE Returned(<<"u", "r", "l", ":">> \o i.body)

\* The call's requests are cut short by nothing but the call's own timer, one
\* timeout period after the call began its probe.
OnlyOwnTimerAborts(c) ==
    \A k \in DOMAIN calls[c].fetches :
        calls[c].fetches[k].outcome = "aborted" =>
            /\ calls[c].timeout = "fired"
            /\ calls[c].fetches[k].settledAt = calls[c].startedAt + PROBE_TIMEOUT_MS

\* C13: under every interleaving of two calls, a call that is over has
\* returned what it returns when run alone with the same probe responses;
\* the calls that probe have different abort controllers, a controller is
\* aborted only once its own call's timer has fired, and a call's requests
\* are aborted by its own timer alone; the hostname tables stay as written.
C13_CallsShareNoState ==
    /\ hostnames = PLATFORM_HOSTNAMES
    /\ \A c \in CallIds :
          /\ calls[c].pc = "done" => calls[c].result = ExpectedAlone(c)
          /\ OnlyOwnTimerAborts(c)
          /\ SignalAborted(c) => calls[c].timeout = "fired"
          /\ \A d \in CallIds \ {c} :
                calls[c].timeout # "unset" /\ calls[d].timeout # "unset" =>
                    calls[c].controller # calls[d].controller

\* C13 witness: the timer of call 2 fired while call 1 was probing; call 1
\* went on, and its later answer showed Shopify.
C13_Witness ==
    /\ calls[2].timeout = "fired"
    /\ calls[2].pc = "done"
    /\ calls[1].pc = "done"
    /\ calls[1].detected = "yes"
    /\ calls[1].startedAt < calls[2].deadline
    /\ calls[1].fetches[Len(calls[1].fetches)].settledAt > calls[2].deadline

(***************************************************************************)
(* C21.  The header rule of the probe.                                     *)
(***************************************************************************)
\* C21: a response is reported as Shopify exactly when one of its headers
\* has a name starting with x-shopify or a value containing shopify, in any
\* letter case (as typed into the response by hand); the status of the
\* response plays no part (each response is tried under several statuses
\* before the call starts).  An answered request ends the probe with
\* "detected" exactly when its answer shows Shopify.
C21_HeaderRuleDecides ==
    /\ pc = "start" =>
          \A r \in Responses :
              \A s \in {OK, NOT_FOUND, INTERNAL_SERVER_ERROR} :
                  TryFetchResult([r EXCEPT !.status = s]) = (r.vendor \/ r.mention)
    /\ \A i \in DOMAIN fetches :
          fetches[i].outcome = "response" =>
              (AnswerShowsShopify(i) <=> (i = Len(fetches) /\ Done /\ detected = "yes"))

\* C21 witness: a 404 answer with an X-Shopify-Stage header ended the probe
\* with "detected".
C21_Witness ==
    /\ Done
    /\ detected = "yes"
    /\ fetches # <<>>
    /\ fetches[Len(fetches)].response.status = NOT_FOUND
    /\ fetches[Len(fetches)].response.vendor

(***************************************************************************)
(* C29.  The probe's timer is cleared on every exit.                       *)
(***************************************************************************)
\* C29: once a call that started the probe's timer is over, the timer is
\* cleared (or has fired): none is pending, and nothing is aborted after the
\* call has returned.
C29_TimerClearedOnExit ==
    /\ [](Done => timeout # "pending")
    /\ []((Done /\ fetches # <<>>) => timeout \in {"cleared", "fired"})
    /\ [][Done => (aborted' = aborted /\ timeout' = timeout)]_vars

\* C29 witness: a probe that sent both requests is over, its timer cleared.
C29_Witness ==
    /\ Done
    /\ Len(fetches) = 2
    /\ fetches[2].outcome = "response"
    /\ timeout = "cleared"
    /\ ~aborted

(***************************************************************************)
(* C22.  Whether the validation errors depend on the input alone.          *)
(***************************************************************************)
\* The typed URL of call c has no usable variant parameter.
NoVariantTyped(c) ==
    LET variants == SelectSeq(calls[c].input.url.params, LAMBDA p : p.name = <<"v", "a", "r", "i", "a", "n", "t">>)
    IN  variants = <<>> \/ variants[1].value = <<>>

\* The typed URL of call c has a hostname that no fast rule matches.
UnknownDomainTyped(c) ==
    /\ calls[c].input.kind = "url"
    /\ ~calls[c].input.url.base.amazon
    /\ ~calls[c].input.url.base.shopify
    /\ ~calls[c].input.url.base.automation

CallDone(c) == calls[c].pc = "done"

\* C22 as stated: two calls with the same input raise the same validation
\* error, or none, whatever the probe returns, and an error is raised without
\* any network request having been waited on.  Two calls on an unknown domain
\* without a variant, of which one probe finds Shopify and the other does
\* not, refute it.
C22_ErrorFromInputAlone ==
    /\ \A c \in CallIds :
          (CallDone(c) /\ calls[c].result.kind = "thrown") => calls[c].fetches = <<>>
    /\ \A c, d \in CallIds :
          (/\ CallDone(c)
           /\ CallDone(d)
           /\ calls[c].rawProductUrl = calls[d].rawProductUrl) =>
              /\ calls[c].result.kind = calls[d].result.kind
              /\ calls[c].result.message = calls[d].result.message

\* C22 amended: EmptyInput and MalformedUrl are decided by the input alone
\* and raised before any network request, and so is MissingVariant for a
\* myshopify.com URL.  For an unknown domain without a variant, MissingVariant
\* is raised exactly when the probe answered "detected", after its requests:
\* two calls with the same input and the same probe answer end alike.
C22_ErrorFromInputAndProbe ==
    /\ \A c \in CallIds :
          CallDone(c) =>
              /\ calls[c].input.kind = "empty" =>
                    /\ calls[c].result = Thrown(EmptyInputMessage, BAD_REQUEST)
                    /\ calls[c].fetches = <<>>
              /\ calls[c].input.kind = "text" =>
                    /\ calls[c].result = Thrown(MalformedUrlMessage, BAD_REQUEST)
                    /\ calls[c].fetches = <<>>
              /\ (/\ calls[c].input.kind = "url"
                  /\ ~calls[c].input.url.base.amazon
                  /\ calls[c].input.url.base.shopify
                  /\ NoVariantTyped(c)) =>
                    /\ calls[c].result = Thrown(MissingVariantMessage, BAD_REQUEST)
                    /\ calls[c].fetches = <<>>
              /\ (UnknownDomainTyped(c) /\ NoVariantTyped(c)) =>
                    /\ calls[c].fetches # <<>>
                    /\ calls[c].detected = "yes" <=>
                          calls[c].result = Thrown(MissingVariantMessage, BAD_REQUEST)
                    /\ calls[c].detected = "no" <=> calls[c].result.kind = "returned"
              /\ (calls[c].result.kind = "thrown" /\ calls[c].fetches # <<>>) =>
                    /\ UnknownDomainTyped(c)
                    /\ NoVariantTyped(c)
                    /\ calls[c].detected = "yes"
    /\ \A c, d \in CallIds :
          (/\ CallDone(c)
           /\ CallDone(d)
           /\ calls[c].rawProductUrl = calls[d].rawProductUrl
           /\ calls[c].detected = calls[d].detected) =>
              calls[c].result = calls[d].result

\* C22 witness: two calls on the same unknown domain without a variant are
\* over; the probe of one found Shopify and it threw, the other returned.
C22_Witness ==
    /\ CallDone(1)
    /\ CallDone(2)
    /\ calls[1].rawProductUrl = calls[2].rawProductUrl
    /\ calls[1].result = Thrown(MissingVariantMessage, BAD_REQUEST)
    /\ calls[1].fetches # <<>>
    /\ calls[2].result.kind = "returned"

(***************************************************************************)
(* C23.  201 only after the order record is committed.                     *)
(***************************************************************************)
\* The hash stored for an order id matches a secret.
StoredSecretIs(id, secret) ==
    BcryptCompare(HashClientSecret(secret), SelectOrder(orders, id).clientSecret)

\* The request being served is a POST that the create-order handler has
\* answered.
HandlerAnswered ==
    /\ request.method = "POST"
    /\ stage \in {"settle", "responded"}
    /\ Invoked("createOrderHandler")

\* C23: the create-order handler answers 201 only after saveOrderRecord has
\* committed an order row for the orderId it returns (the row holds the hash
\* of the clientSecret it returns); when saveOrderRecord fails, the answer
\* is 500 "Failed to persist order record", never 201, although the order
\* was created at the provider.
C23_CreatedOnlyAfterCommit ==
    /\ (HandlerAnswered /\ reply.status = CREATED) =>
          /\ providerCalls = <<"createOrder">>
          /\ transactions = <<[orderId |-> reply.orderId, outcome |-> "committed"]>>
          /\ SelectOrder(orders, reply.orderId).found
          /\ StoredSecretIs(reply.orderId, reply.clientSecret)
    /\ (HandlerAnswered /\ transactions # <<>> /\ transactions[1].outcome = "rolledBack") =>
          /\ providerCalls = <<"createOrder">>
          /\ reply = ErrorResponse(INTERNAL_SERVER_ERROR, "Failed to persist order record")

\* C23 witness: the provider created the order, the save failed, and the
\* request was answered 500 with no row stored for it.
C23_Witness ==
    /\ Responded
    /\ providerCalls = <<"createOrder">>
    /\ transactions # <<>>
    /\ transactions[1].outcome = "rolledBack"
    /\ ~SelectOrder(orders, transactions[1].orderId).found
    /\ reply.status = INTERNAL_SERVER_ERROR

(***************************************************************************)
(* C24.  The order of the checks of the status handler.                    *)
(***************************************************************************)
\* What the status request being served is expected to be answered by the
\* local checks, from what it was typed from and what was saved: 0 when all
\* of them pass.
ExpectedCheckStatus ==
    IF request.orderId \notin Uuids THEN BAD_REQUEST
    ELSE IF ~request.authorization.present THEN UNAUTHORIZED
    ELSE IF issued[request.orderId] = <<>> THEN NOT_FOUND
    ELSE IF request.authorization.value # LastIssued(request.orderId) THEN FORBIDDEN
    ELSE 0

StatusAnswered ==
    /\ request.method = "GET"
    /\ Responded
    /\ Invoked("getOrderStatusHandler")

CarriedSecrets == Secrets \cup {"wrong-secret"}

\* The local checks of the status handler pass for the order id and secret.
ChecksPass(id, secret) ==
    StatusCheck(id, Header(secret), SelectOrder(orders, id)) = NoHttpResponse

\* C25: after any sequence of create-order requests, the local secret check
\* of GET /orders/:orderId passes exactly when the Authorization header
\* equals the clientSecret most recently saved for the order id: the secret
\* of a 201 answer authenticates its own order, and a second save of the
\* same order id replaces the stored secret, so that the earlier secret no
\* longer authenticates.
C25_LastSavedSecretAuthenticates ==
    /\ \A id \in Uuids :
          \A secret \in CarriedSecrets :
              ChecksPass(id, secret) <=> (issued[id] # <<>> /\ secret = LastIssued(id))
    /\ (HandlerAnswered /\ reply.status = CREATED) =>
          /\ ChecksPass(reply.orderId, reply.clientSecret)
          /\ LastIssued(reply.orderId) = reply.clientSecret
    /\ StatusAnswered =>
          (providerCalls = <<"getOrder">> =>
              request.authorization.value = LastIssued(request.orderId))

\* C25 witness: an order id was saved twice with different secrets; the
\* second 201 has been answered and the first secret no longer passes.
C25_Witness ==
    /\ HandlerAnswered
    /\ reply.status = CREATED
    /\ Len(issued[reply.orderId]) = 2
    /\ issued[reply.orderId][1] # issued[reply.orderId][2]
    /\ ~ChecksPass(reply.orderId, issued[reply.orderId][1])
    /\ ChecksPass(reply.orderId, issued[reply.orderId][2])

(***************************************************************************)
(* C26.  A resolver failure sends nothing and writes nothing.              *)
(***************************************************************************)
\* C26: when resolveProductLocator fails inside createCrossmintOrder, no
\* request is sent to the provider and saveOrderRecord is not called: the
\* users and orders tables are as they were before the handler ran.
C26_ResolverFailureWritesNothing ==
    /\ [](locator.kind = "thrown" => (providerCalls = <<>> /\ transactions = <<>>))
    /\ [][(stage = "handler" /\ locator'.kind = "thrown") =>
              (orders' = orders /\ users' = users /\ issued' = issued)]_vars

\* C26 witness: with an order and its user stored by an earlier request, a
\* paid request whose product URL does not resolve has been answered.
C26_Witness ==
    /\ HandlerAnswered
    /\ Responded
    /\ locator.kind = "thrown"
    /\ orders # {}
    /\ users # {}
    /\ providerCalls = <<>>

(***************************************************************************)
(* C28.  Validation comes before payment.                                  *)
(***************************************************************************)
\* The body of the request is expected to pass solanaCreateOrderSchema, from
\* what it was typed from.
BodyExpectedValid ==
    /\ request.body.wellFormed
    /\ request.body.fieldsOk
    /\ request.expect \notin {"invalidBody", "empty", "malformed"}

requestVars == <<request, stage, trace, reply, validatedBody, locator, issued,
                 providerCalls, transactions, served>>

InitSave ==
    /\ ResolverIdle
    /\ CallsIdle
    /\ ConsoleIdle
    /\ AppIdle
    /\ SaveIdle

\* The transaction of call s is open.
InTransaction(s) == saves[s].pc \in {"begun", "userDone", "orderDone"}

\* saveOrderRecord is called: the secret is hashed (lines 55-56) and the
\* transaction begins (line 58).
StartSave(s) ==
    /\ saves[s].pc = "idle"
    /\ \E orderId \in Uuids, email \in Emails, payerAddress \in Wallets,
          clientSecret \in {"secret-a"} :
          saves' = [saves EXCEPT ![s] =
              [SaveCall(orderId, email, payerAddress, Network, clientSecret) EXCEPT
                  !.pc = "begun",
                  !.hashedSecret = BcryptHash(HashClientSecret(clientSecret),
                                              SALT_ROUNDS, "salt-1")]]
    /\ UNCHANGED <<users, orders, requestVars, resolverVars, callVars, consoleVars>>

\* No other open transaction has written the users row of the key.
UserRowFree(s) ==
    \A t \in SaveIds \ {s} :
        (InTransaction(t) /\ saves[t].userWritten) =>
            ~(/\ saves[t].payerAddress = saves[s].payerAddress
              /\ saves[t].network = saves[s].network)

\* No other open transaction has written the orders row of the id.
OrderRowFree(s) ==
    \A t \in SaveIds \ {s} :
        (InTransaction(t) /\ saves[t].orderWritten) => saves[t].orderId # saves[s].orderId

\* Ids no users row has, committed or written in an open transaction.
FreeUserIds ==
    {id \in UserIds :
        /\ \A u \in users : u.id # id
        /\ \A t \in SaveIds : InTransaction(t) => saves[t].userId # id}

\* The users upsert of call s (lines 61-79): the row is written in the
\* transaction and its id is returned.
UpsertUserStatement(s) ==
    /\ saves[s].pc = "begun"
    /\ UserRowFree(s)
    /\ \E id \in FreeUserIds :
          LET written == UpsertUser(users, id, saves[s].payerAddress, saves[s].network,
                                    saves[s].email)
          IN  saves' = [saves EXCEPT
                  ![s].pc = "userDone",
                  ![s].userWritten = TRUE,
                  ![s].userId = ReturnedUserId(written, saves[s].payerAddress,
                                               saves[s].network)]
    /\ UNCHANGED <<users, orders, requestVars, resolverVars, callVars, consoleVars>>

\* The orders upsert of call s (lines 86-103).
UpsertOrderStatement(s) ==
    /\ saves[s].pc = "userDone"
    /\ OrderRowFree(s)
    /\ saves' = [saves EXCEPT ![s].pc = "orderDone", ![s].orderWritten = TRUE]
    /\ UNCHANGED <<users, orders, requestVars, resolverVars, callVars, consoleVars>>

\* The callback of db.transaction returned: both writes are committed
\* together.
CommitSave(s) ==
    /\ saves[s].pc = "orderDone"
    /\ users' = UpsertUser(users, saves[s].userId, saves[s].payerAddress,
                           saves[s].network, saves[s].email)
    /\ orders' = UpsertOrder(orders, saves[s].orderId, saves[s].userId, saves[s].network,
                             saves[s].hashedSecret)
    /\ saves' = [saves EXCEPT ![s].pc = "committed"]
    /\ UNCHANGED <<requestVars, resolverVars, callVars, consoleVars>>

\* Mutant of Rollback: what the call wrote to users stays.
RollbackKeepsUser(s) ==
    /\ users' = IF saves[s].userWritten
                THEN UpsertUser(users, saves[s].userId, saves[s].payerAddress,
                                saves[s].network, saves[s].email)
                ELSE users
    /\ UNCHANGED orders

\* db.transaction when its callback throws: the writes of the transaction
\* are discarded.
Rollback(s) == UNCHANGED <<users, orders>>

\* A statement of call s, or its commit, fails: the transaction is rolled
\* back and saveOrderRecord throws.
FailSave(s) ==
    /\ InTransaction(s)
    /\ Rollback(s)
    /\ saves' = [saves EXCEPT ![s].pc = "rolledBack", ![s].userWritten = FALSE,
                              ![s].orderWritten = FALSE]
    /\ UNCHANGED <<requestVars, resolverVars, callVars, consoleVars>>

NextSave ==
    \/ \E s \in SaveIds : StartSave(s)
    \/ \E s \in SaveIds : UpsertUserStatement(s)
    \/ \E s \in SaveIds : UpsertOrderStatement(s)
    \/ \E s \in SaveIds : CommitSave(s)
    \/ \E s \in SaveIds : FailSave(s)

SpecSave == InitSave /\ [][NextSave]_vars

(***************************************************************************)
(* C27.  The tables after any calls of saveOrderRecord.                    *)
(***************************************************************************)
\* Call s committed a write of the users row u.
WroteUser(s, u) ==
    /\ saves[s].pc = "committed"
    /\ saves[s].payerAddress = u.walletAddress
    /\ saves[s].network = u.network
    /\ saves[s].userId = u.id

\* C27: after any calls of saveOrderRecord, failed and concurrent ones
\* included, every orders row references a users row that exists, there is
\* at most one users row per (walletAddress, network) and per id and at most
\* one orders row per id; and a call that fails leaves nothing behind: every
\* row was written by a call that committed, the users row and an orders
\* row of the order id of every committed call are in place, and the step
\* that rolls a call back changes no table.
C27_TablesStayConsistent ==
    /\ [](\A o \in orders : \E u \in users : u.id = o.userId /\ u.network = o.network)
    /\ [](\A u, v \in users :
              (\/ (u.walletAddress = v.walletAddress /\ u.network = v.network)
               \/ u.id = v.id) => u = v)
    /\ [](\A o, p \in orders : o.id = p.id => o = p)
    /\ [](\A u \in users :
              /\ \E s \in SaveIds : WroteUser(s, u)
              /\ \E s \in SaveIds : WroteUser(s, u) /\ saves[s].email = u.email)
    /\ [](\A o \in orders :
              \E s \in SaveIds :
                  /\ saves[s].pc = "committed"
                  /\ o = OrderRow(saves[s].orderId, saves[s].userId, saves[s].network,
                                  saves[s].hashedSecret))
    /\ [](\A s \in SaveIds :
              saves[s].pc = "committed" =>
                  /\ \E u \in users : WroteUser(s, u)
                  /\ \E o \in orders : o.id = saves[s].orderId)
    /\ [][\A s \in SaveIds :
              (saves[s].pc # "rolledBack" /\ saves'[s].pc = "rolledBack") =>
                  (users' = users /\ orders' = orders)]_vars

\* C27 witness: of two interleaved calls for different wallets, one failed
\* after its users upsert and the other committed; no users row of the
\* failed call's wallet exists.
C27_Witness ==
    \E s, t \in SaveIds :
        /\ saves[s].pc = "rolledBack"
        /\ saves[s].userId # ""
        /\ saves[t].pc = "committed"
        /\ saves[t].userId # saves[s].userId
        /\ users # {}
        /\ \A u \in users : u.walletAddress # saves[s].payerAddress

(***************************************************************************)
(* The checkout console: handleSubmit, authorizePayment and                *)
(* finalizeOrderPayment of the React component, with the buttons that      *)
(* start them.  A handler runs up to its await in one step and from the    *)
(* settling of its request to its end in another.                          *)
(***************************************************************************)
\* How many runs of handleSubmit and authorizePayment are followed.
MaxRuns == 3

ProductUrls == {"https://shop.example.com/a", "https://shop.example.com/b"}

InitConsole ==
    /\ ResolverIdle
    /\ CallsIdle
    /\ AppIdle
    /\ SaveIdle
    /\ ConsoleIdle

\* useWallet().connected
Connected == publicKey # ""

\* The submit button is enabled (lines 798-805).
SubmitEnabled ==
    /\ step \notin {"submitting", "authorizing"}
    /\ Connected
    /\ form.payerAddress # ""

\* Mutant of AuthorizeEnabled: the button is rendered at every step.
AuthorizeAlwaysEnabled == step # "authorizing"

\* The authorize button is rendered, at awaitingPayment and authorizing, and
\* not disabled, as it is at authorizing (lines 809-814).
AuthorizeEnabled == step = "awaitingPayment"

\* A run starts: what is known of it at its start.
Run(handler, sent, payload, requirements) ==
    [handler |-> handler, request |-> sent, payload |-> payload,
     requirements |-> requirements, status |-> 0, step |-> ""]

\* The run that started last ends with an answer of the status (0: none)
\* and leaves the step.
EndRun(log, status, left) ==
    [log EXCEPT ![Len(log)] = [@ EXCEPT !.status = status, !.step = left]]

\* The wallet connects or disconnects; the effect on publicKey copies it
\* into the form (lines 251-256).
ConnectWallet ==
    /\ publicKey = ""
    /\ publicKey' = "wallet-a"
    /\ form' = [form EXCEPT !.payerAddress = "wallet-a"]
    /\ UNCHANGED <<step, consoleResult, lastPayload, pendingTransfer, sendingTransfer,
                   transferError, transferSignature, paymentRequirements, x402Version,
                   running, history>>
    /\ UNCHANGED <<resolverVars, appVars, callVars, saveVars>>

DisconnectWallet ==
    /\ publicKey # ""
    /\ publicKey' = ""
    /\ form' = [form EXCEPT !.payerAddress = ""]
    /\ UNCHANGED <<step, consoleResult, lastPayload, pendingTransfer, sendingTransfer,
                   transferError, transferSignature, paymentRequirements, x402Version,
                   running, history>>
    /\ UNCHANGED <<resolverVars, appVars, callVars, saveVars>>

\* updateField("productUrl", value)
UpdateField ==
    /\ \E value \in ProductUrls :
          /\ form.productUrl # value
          /\ form' = [form EXCEPT !.productUrl = value]
    /\ UNCHANGED <<step, consoleResult, lastPayload, pendingTransfer, sendingTransfer,
                   transferError, transferSignature, paymentRequirements, x402Version,
                   publicKey, running, history>>
    /\ UNCHANGED <<resolverVars, appVars, callVars, saveVars>>

\* handleSubmit up to its fetch (lines 552-577).
HandleSubmit ==
    /\ SubmitEnabled
    /\ Len(history) < MaxRuns
    /\ paymentRequirements' = ""
    /\ x402Version' = 0
    /\ lastPayload' = NoPayload
    /\ pendingTransfer' = ""
    /\ transferSignature' = ""
    /\ transferError' = ""
    /\ IF publicKey = ""
       THEN /\ consoleResult' =
                  ErrorResult("Connect your Solana wallet before submitting the order.", 0)
            /\ step' = "error"
            /\ history' = EndRun(Append(history, Run("handleSubmit", "none", NoPayload, "")),
                                 0, "error")
            /\ UNCHANGED running
       ELSE LET payload == Payload(form.payerAddress, form.productUrl)
            IN  /\ consoleResult' = EmptyResult
                /\ step' = "submitting"
                /\ running' = [handler |-> "handleSubmit", payload |-> payload]
                /\ history' = Append(history, Run("handleSubmit", "unpaid", payload, ""))
    /\ UNCHANGED <<form, sendingTransfer, publicKey>>
    /\ UNCHANGED <<resolverVars, appVars, callVars, saveVars>>

\* applyOrderResult(data, rawHeader) (lines 492-536).
ApplyOrderResult(data, rawHeader) ==
    /\ consoleResult' = ResultState(data, rawHeader, "", 0)
    /\ lastPayload' = NoPayload
    /\ paymentRequirements' = ""
    /\ x402Version' = 0
    /\ pendingTransfer' = IF data.serializedTransaction = "valid" THEN "transaction" ELSE ""
    /\ transferSignature' = ""
    /\ transferError' = IF data.serializedTransaction = "garbled"
                        THEN "Failed to decode order payment transaction."
                        ELSE ""
    /\ step' = "success"

\* The catch block of a handler, and its answer to a response that is not ok.
FailRun(errorMessage, errorStatus) ==
    /\ consoleResult' = ErrorResult(errorMessage, errorStatus)
    /\ step' = "error"
    /\ UNCHANGED <<lastPayload, paymentRequirements, x402Version, pendingTransfer,
                   transferSignature, transferError>>

\* The 2xx bodies a request may be answered with.
OrderDatas == {OrderData("order-1", t) : t \in {"", "valid", "garbled"}}

\* Statuses of answers that are not ok, other than 402.
FailureStatuses == {BAD_REQUEST, INTERNAL_SERVER_ERROR}

\* handleSubmit from the settling of its fetch (lines 578-637).
SubmitSettles ==
    /\ running.handler = "handleSubmit"
    /\ running' = NotRunning
    /\ \/ \E requirement \in {"", "solana-exact"}, version \in {1, 2} :
             /\ paymentRequirements' = requirement
             /\ x402Version' = version
             /\ step' = "awaitingPayment"
             /\ lastPayload' = running.payload
             /\ history' = EndRun(history, PAYMENT_REQUIRED, "awaitingPayment")
             /\ UNCHANGED <<consoleResult, pendingTransfer, transferSignature, transferError>>
       \/ \E status \in FailureStatuses :
             /\ FailRun("Request failed", status)
             /\ history' = EndRun(history, status, "error")
       \/ \E data \in OrderDatas :
             /\ ApplyOrderResult(data, "")
             /\ history' = EndRun(history, CREATED, "success")
       \/ /\ FailRun("Failed to fetch", 0)
          /\ history' = EndRun(history, 0, "error")
    /\ UNCHANGED <<form, sendingTransfer, publicKey>>
    /\ UNCHANGED <<resolverVars, appVars, callVars, saveVars>>

\* authorizePayment up to its fetch (lines 640-687).
AuthorizePayment ==
    /\ AuthorizeEnabled
    /\ Len(history) < MaxRuns
    /\ IF ~lastPayload.present
       THEN /\ history' = EndRun(Append(history, Run("authorizePayment", "none",
                                                     lastPayload, paymentRequirements)),
                                 0, step)
            /\ UNCHANGED <<step, consoleResult, running>>
       ELSE IF publicKey = ""
       THEN /\ consoleResult' =
                  ErrorResult("Connect a Solana wallet to authorize the payment.", 0)
            /\ step' = "error"
            /\ history' = EndRun(Append(history, Run("authorizePayment", "none",
                                                     lastPayload, paymentRequirements)),
                                 0, "error")
            /\ UNCHANGED running
       ELSE IF paymentRequirements = ""
       THEN /\ consoleResult' = ErrorResult("Payment requirements missing.", 0)
            /\ step' = "error"
            /\ history' = EndRun(Append(history, Run("authorizePayment", "none",
                                                     lastPayload, paymentRequirements)),
                                 0, "error")
            /\ UNCHANGED running
       ELSE \E canSign \in BOOLEAN :
               IF canSign
               THEN /\ step' = "authorizing"
                    /\ consoleResult' = EmptyResult
                    /\ running' = [handler |-> "authorizePayment", payload |-> lastPayload]
                    /\ history' = Append(history, Run("authorizePayment", "paid",
                                                      lastPayload, paymentRequirements))
               ELSE /\ consoleResult' =
                          ErrorResult("Connected wallet cannot sign transactions.", 0)
                    /\ step' = "error"
                    /\ history' = EndRun(Append(history, Run("authorizePayment", "none",
                                                             lastPayload,
                                                             paymentRequirements)),
                                         0, "error")
                    /\ UNCHANGED running
    /\ UNCHANGED <<form, lastPayload, pendingTransfer, sendingTransfer, transferError,
                   transferSignature, paymentRequirements, x402Version, publicKey>>
    /\ UNCHANGED <<resolverVars, appVars, callVars, saveVars>>

\* authorizePayment from the settling of fetchWithPayment (lines 688-708).
AuthorizeSettles ==
    /\ running.handler = "authorizePayment"
    /\ running' = NotRunning
    /\ \/ \E status \in FailureStatuses \cup {PAYMENT_REQUIRED} :
             /\ FailRun("Request failed", status)
             /\ history' = EndRun(history, status, "error")
       \/ \E data \in OrderDatas :
             /\ ApplyOrderResult(data, "receipt")
             /\ history' = EndRun(history, CREATED, "success")
       \/ /\ FailRun("Failed to fetch", 0)
          /\ history' = EndRun(history, 0, "error")
    /\ UNCHANGED <<form, sendingTransfer, publicKey>>
    /\ UNCHANGED <<resolverVars, appVars, callVars, saveVars>>

\* finalizeOrderPayment up to sendTransaction (lines 454-474); its button
\* is rendered at step success with a pending transfer (line 853).
FinalizeOrderPayment ==
    /\ step = "success"
    /\ pendingTransfer # ""
    /\ ~sendingTransfer
    /\ sendingTransfer' = TRUE
    /\ transferError' = ""
    /\ UNCHANGED <<form, step, consoleResult, lastPayload, pendingTransfer,
                   transferSignature, paymentRequirements, x402Version, publicKey,
                   running, history>>
    /\ UNCHANGED <<resolverVars, appVars, callVars, saveVars>>

\* finalizeOrderPayment from the settling of sendTransaction (lines 476-482).
FinalizeSettles ==
    /\ sendingTransfer
    /\ sendingTransfer' = FALSE
    /\ \/ /\ transferSignature' = "signature"
          /\ pendingTransfer' = ""
          /\ UNCHANGED transferError
       \/ /\ transferError' = "User rejected the request."
          /\ UNCHANGED <<transferSignature, pendingTransfer>>
    /\ UNCHANGED <<form, step, consoleResult, lastPayload, paymentRequirements,
                   x402Version, publicKey, running, history>>
    /\ UNCHANGED <<resolverVars, appVars, callVars, saveVars>>

NextConsole ==
    \/ ConnectWallet
    \/ DisconnectWallet
    \/ UpdateField
    \/ HandleSubmit
    \/ SubmitSettles
    \/ AuthorizePayment
    \/ AuthorizeSettles
    \/ FinalizeOrderPayment
    \/ FinalizeSettles

SpecConsole == InitConsole /\ [][NextConsole]_vars

(***************************************************************************)
(* C30.  The steps of the checkout console.                                *)
(***************************************************************************)
RestingSteps == {"awaitingPayment", "success", "error"}

\* C30: every run of handleSubmit or authorizePayment ends with step at
\* awaitingPayment, success or error, and while no run is in flight step is
\* neither submitting nor authorizing; step is success only when the last
\* run was answered 2xx and its order is stored in result.response; and a
\* paid request is sent by authorizePayment only right after a run of
\* handleSubmit that was answered 402 and left lastPayload, which is the
\* payload sent, and paymentRequirements set.
C30_RunsEndAtRest ==
    /\ \A i \in DOMAIN history :
          (i < Len(history) \/ running.handler = "none") => history[i].step \in RestingSteps
    /\ running.handler = "none" => step \in RestingSteps \cup {"idle"}
    /\ (running.handler = "none" /\ history # <<>>) => step = history[Len(history)].step
    /\ running.handler = "handleSubmit" => step = "submitting"
    /\ running.handler = "authorizePayment" => step = "authorizing"
    /\ step = "success" =>
          /\ consoleResult.response.present
          /\ history # <<>>
          /\ history[Len(history)].status \in 200..299
    /\ \A i \in DOMAIN history :
          history[i].request = "paid" =>
              /\ history[i].handler = "authorizePayment"
              /\ history[i].payload.present
              /\ history[i].requirements # ""
              /\ i > 1
              /\ history[i - 1].handler = "handleSubmit"
              /\ history[i - 1].status = PAYMENT_REQUIRED
              /\ history[i - 1].step = "awaitingPayment"
              /\ history[i - 1].payload = history[i].payload

\* C30 witness: a submit was answered 402, the form was changed, and the
\* run of authorizePayment that followed was answered 2xx: the console is at
\* success with the order stored.
C30_Witness ==
    /\ Len(history) = 2
    /\ running.handler = "none"
    /\ history[1].handler = "handleSubmit"
    /\ history[1].status = PAYMENT_REQUIRED
    /\ history[2].request = "paid"
    /\ history[2].payload.productUrl # form.productUrl
    /\ step = "success"
    /\ consoleResult.response.present
====
